---- MODULE Spec2Model ----
(***************************************************************************)
(* A model of the NATS client of lib/nats.js: the connection life cycle,   *)
(* the send buffer, the pong-wait queue, the subscription registry and the *)
(* request multiplexer, with the socket, the server and the event loop as  *)
(* the environment.                                                        *)
(*                                                                         *)
(* The client object is the record St; every function of the source is an  *)
(* operator from client record to client record, so that a handler is the  *)
(* composition of the calls it makes.  The fields below the line "ghost"   *)
(* are not fields of the program: they record what was written to the      *)
(* socket, which callbacks ran and how often an operation was called.      *)
(***************************************************************************)
EXTENDS Integers, Sequences, FiniteSets, TLC

\* ------------------------------------------------------------------ bounds
MaxCalls == 2        \* API calls made by the application in one run
MaxDials == 2        \* sockets opened in one run (createConnection calls)
MaxWire == 4         \* commands written or queued per socket by timers and server PINGs
MaxNet == 2          \* frames the parser holds when the server sends another
MaxRecv == 2         \* messages delivered to one subscription
MaxCloses == 2       \* calls of close()
OptMaxReconnectAttempts == MaxDials - 1   \* options.maxReconnectAttempts
OptMaxPingOut == 1             \* options.maxPingOut

\* ------------------------------------------------------- program constants
FLUSH_THRESHOLD == 65536
PING_LEN == 6        \* 'PING' + CR_LF
PONG_LEN == 6        \* 'PONG' + CR_LF

\* payload sizes the application publishes: one byte, or more than the
\* flush threshold
BigPayload == FLUSH_THRESHOLD + 1
PayloadSizes == {1, BigPayload}

Min(a, b) == IF a < b THEN a ELSE b

\* F applied to the value of x, which is computed once
With(x, F(_)) == CHOOSE r \in {F(v) : v \in {x}} : TRUE

RECURSIVE Digits(_)
Digits(n) == IF n < 10 THEN 1 ELSE 1 + Digits(n \div 10)

\* --------------------------------------------------------------- commands
\* A chunk of the pending queue or of the socket.  k is the protocol verb,
\* id the sid (SUB, UNSUB) , buf tells a Buffer from a string, len is the
\* byte length, cut marks a chunk whose bytes were damaged on the way.
\* n (the API call that produced it) and cb (the waiter a PING was issued
\* for) are ghost tags: the program never reads them.
Cmd(k, id, n, buf, len, cb) ==
    [k |-> k, id |-> id, n |-> n, buf |-> buf, len |-> len, cb |-> cb, cut |-> FALSE]

NoCb == [t |-> "-", n |-> 0]
UndefCb == [t |-> "undef", n |-> 0]        \* pongs.push(undefined)
ConnectCb == [t |-> "connect", n |-> 0]    \* function() { client.connectCB(); }
UserCb(n) == [t |-> "cb", n |-> n]         \* the callback of API call n

PING_REQUEST(cb) == Cmd("PING", 0, 0, FALSE, PING_LEN, cb)
PONG_RESPONSE == Cmd("PONG", 0, 0, FALSE, PONG_LEN, NoCb)
\* undefined
Undefined == [undef |-> TRUE]

\* CONNECT + SPC + JSON.stringify(cs) + CR_LF: sig, jwt and nkey tell whether cs
\* has the field; user, pass and auth_token are the values of the fields
ConnectCmd ==
    [k |-> "CONNECT", id |-> 0, n |-> 0, buf |-> FALSE, len |-> 0, cb |-> NoCb,
     cut |-> FALSE, sig |-> FALSE, jwt |-> FALSE, nkey |-> FALSE,
     user |-> Undefined, pass |-> Undefined, auth_token |-> Undefined]
\* [SUB, subject, sid + CR_LF].join(SPC) with a one-letter subject
SubCmd(sid, n) == Cmd("SUB", sid, n, FALSE, 8 + Digits(sid), NoCb)
\* [UNSUB, sid + CR_LF] or [UNSUB, sid, max + CR_LF]
UnsubCmd(sid, max, n) ==
    Cmd("UNSUB", sid, n, FALSE,
        IF max = 0 THEN 8 + Digits(sid) ELSE 9 + Digits(sid) + Digits(max), NoCb)
\* 'PUB ' + subject + SPC + size + CR_LF + payload + CR_LF
PubCmd(n, buf, size) == Cmd("PUB", 0, n, buf, 6 + Digits(size) + 2 + size + 2, NoCb)

\* ------------------------------------------------------------------ state
VARIABLES
    \* fields of the Client object
    closed, connected, wasConnected, reconnecting, reconnects,
    stream,         \* TRUE: this.stream is a socket; FALSE: null
    infoReceived,
    pendingOk,      \* this.pending !== null
    pending,
    pongsOk,        \* this.pongs is an array (not null)
    pongs,
    pSize, pBufs, ssid,
    subsOk,         \* this.subs !== null
    subs,           \* sid -> subscription
    pout,
    pingTimer,      \* this.pingTimer is a timer that has not fired
    inbound,        \* frames received and not yet consumed by the parser
    servers,        \* client.servers
    currentServer,  \* id of client.currentServer (0 before the first dial)
    listeners,      \* the application's event listeners are registered
    optTls,         \* options.tls
    optAuth,        \* options.sig, options.nkey, options.userjwt
    optReconnect,   \* options.reconnect
    optMaxReconnectAttempts,
    optWaitOnFirstConnect,
    dialLog,        \* ghost: the urls dialed, in order (kept only when on)
    cred,           \* this.user, this.pass, this.token and those of this.options
    closers,        \* the handlers of the application that call close()
    tlsCb,          \* the callback of tls.connect has not run yet
    \* event loop
    respmux,        \* this.respmux, the request multiplexer
    immediates,     \* setImmediate(flushPending) callbacks not yet run
    timers,         \* timers armed by timeout() and request({timeout})
    reconnTimers,   \* setTimeout(reconnect) timers not yet fired
    \* the socket of the last dial and the server behind it
    sock,           \* "none", "connecting", "open", "closing", "closed"
    wire,           \* chunks written to the socket, in order
    net,            \* frames sent by the server, not yet delivered
    \* ghost
    acked,          \* PONG frames the parser has processed on this socket
    fired,          \* callbacks and events run by the last step
    dials, ncall,
    hsLen,          \* chunks written directly by the handshake
    enq,            \* commands passed to sendCommand since the handshake
    sidLog,         \* sids returned by subscribe, in order
    closeCalls,
    afterClose,     \* kinds of events handled after close()
    reqs,           \* per request (by token): its id and what its callback got
    hist,           \* per subscription with a max (by sid): what it has seen so far
    recv,           \* the -ERR lines in the 'data' event handled by the last step
    beats,          \* heartbeat timers set and neither fired nor cleared
    flog,           \* calls whose command was queued or written, callbacks run (SpecFlush)
    px,             \* the parser fed byte by byte (SpecChunks)
    threw           \* a handler dereferenced null

vars == <<closed, connected, wasConnected, reconnecting, reconnects, stream,
          infoReceived, pendingOk, pending, pongsOk, pongs, pSize, pBufs, ssid,
          subsOk, subs, pout, pingTimer, inbound, servers, currentServer,
          listeners, optTls, optAuth, optReconnect, optMaxReconnectAttempts, optWaitOnFirstConnect,
          dialLog, cred, closers,
          tlsCb, respmux, immediates, timers, reconnTimers, sock, wire, net,
          acked, fired, dials, ncall, hsLen, enq, sidLog, closeCalls,
          afterClose, reqs, hist, recv, beats, threw, flog, px>>

\* The state as one record, the argument and result of the operators below.
St ==
    [closed |-> closed, connected |-> connected, wasConnected |-> wasConnected,
     reconnecting |-> reconnecting, reconnects |-> reconnects, stream |-> stream,
     infoReceived |-> infoReceived, pendingOk |-> pendingOk, pending |-> pending,
     pongsOk |-> pongsOk, pongs |-> pongs, pSize |-> pSize, pBufs |-> pBufs,
     ssid |-> ssid, subsOk |-> subsOk, subs |-> subs, pout |-> pout,
     pingTimer |-> pingTimer, inbound |-> inbound, servers |-> servers,
     currentServer |-> currentServer, listeners |-> listeners, optTls |-> optTls,
     optAuth |-> optAuth, tlsCb |-> tlsCb, optReconnect |-> optReconnect,
     optMaxReconnectAttempts |-> optMaxReconnectAttempts,
     optWaitOnFirstConnect |-> optWaitOnFirstConnect, dialLog |-> dialLog, cred |-> cred, closers |-> closers,
     respmux |-> respmux, timers |-> timers,
     immediates |-> immediates, reconnTimers |-> reconnTimers, sock |-> sock,
     wire |-> wire, net |-> net, acked |-> acked,
     fired |-> fired, dials |-> dials, ncall |-> ncall, hsLen |-> hsLen,
     enq |-> enq, sidLog |-> sidLog, closeCalls |-> closeCalls,
     afterClose |-> afterClose, reqs |-> reqs, hist |-> hist,
     recv |-> recv, beats |-> beats, threw |-> threw, flog |-> flog]

Commit(s) ==
    /\ closed' = s.closed /\ connected' = s.connected
    /\ wasConnected' = s.wasConnected /\ reconnecting' = s.reconnecting
    /\ reconnects' = s.reconnects /\ stream' = s.stream
    /\ infoReceived' = s.infoReceived /\ pendingOk' = s.pendingOk
    /\ pending' = s.pending /\ pongsOk' = s.pongsOk /\ pongs' = s.pongs
    /\ pSize' = s.pSize /\ pBufs' = s.pBufs /\ ssid' = s.ssid
    /\ subsOk' = s.subsOk /\ subs' = s.subs /\ pout' = s.pout
    /\ pingTimer' = s.pingTimer /\ inbound' = s.inbound
    /\ servers' = s.servers /\ currentServer' = s.currentServer
    /\ listeners' = s.listeners /\ optTls' = s.optTls
    /\ optAuth' = s.optAuth /\ tlsCb' = s.tlsCb
    /\ optReconnect' = s.optReconnect
    /\ optMaxReconnectAttempts' = s.optMaxReconnectAttempts
    /\ optWaitOnFirstConnect' = s.optWaitOnFirstConnect /\ dialLog' = s.dialLog /\ cred' = s.cred /\ closers' = s.closers
    /\ respmux' = s.respmux /\ timers' = s.timers
    /\ immediates' = s.immediates /\ reconnTimers' = s.reconnTimers
    /\ sock' = s.sock /\ wire' = s.wire /\ net' = s.net
    /\ acked' = s.acked /\ fired' = s.fired
    /\ dials' = s.dials /\ ncall' = s.ncall /\ hsLen' = s.hsLen
    /\ enq' = s.enq /\ sidLog' = s.sidLog /\ closeCalls' = s.closeCalls
    /\ afterClose' = s.afterClose /\ reqs' = s.reqs /\ hist' = s.hist
    /\ recv' = s.recv /\ beats' = s.beats /\ threw' = s.threw
    /\ flog' = s.flog
    /\ px' = px

\* A step starts with no callback run yet.
Begin == [St EXCEPT !.fired = <<>>, !.recv = <<>>]

\* The events the application listens to; close() removes the listeners.
Listened ==
    {"connect", "reconnect", "reconnecting", "disconnect", "close", "unsubscribe",
     "permission_error", "error:NATS_PROTOCOL_ERR", "error:CONN_ERR",
     "error:SECURE_CONN_REQ", "error:NON_SECURE_CONN_REQ", "error:CLIENT_CERT_REQ",
     "error:SIG_REQ", "error:SIG_NOT_FUNC", "error:NKEY_OR_JWT_REQ", "servers",
     "serversDiscovered",
     "error:callback"}

\* ghost: the subscription with this sid had a message processed ("msgs"),
\* its callback invoked ("cbs") or its 'unsubscribe' event emitted ("unsubs")
Tally(h, what, sid) ==
    IF sid \in DOMAIN h THEN [h EXCEPT ![sid][what] = @ + 1] ELSE h

\* ghost: the callback of the request with this id got a value ("reqCb") or
\* REQ_TIMEOUT ("reqTimeout"); late marks a value that came after the request
\* had timed out or was cancelled
Noted(rs, what, id) ==
    [t \in DOMAIN rs |->
        IF rs[t].id # id THEN rs[t]
        ELSE IF what = "reqCb"
            THEN [rs[t] EXCEPT !.vals = @ + 1, !.late = @ \/ rs[t].ended]
        ELSE IF what = "reqTimeout"
            THEN [rs[t] EXCEPT !.touts = @ + 1, !.ended = TRUE]
        ELSE IF what = "cancel" THEN [rs[t] EXCEPT !.ended = TRUE]
        ELSE rs[t]]

\* ghost: the calls (by number) whose command sendCommand has queued, those
\* whose command was written to a socket, the flush callbacks invoked and
\* those invoked more than once; kept only when on
NoLog == [on |-> FALSE, queued |-> {}, written |-> {}, cbs |-> {}, twice |-> {}]

CallsOf(q) == {q[i].n : i \in {x \in 1..Len(q) : q[x].n > 0 /\ q[x].k # "PING"}}

Logged(l, what, ns) == IF l.on THEN [l EXCEPT ![what] = @ \cup ns] ELSE l

\* A frame sent by the server.  info holds the fields of an INFO frame, tok
\* the last token of the subject of a MSG (0 when the model does not need it).
Info(tlsRequired, tlsVerify, nonce, urls) ==
    [tls_required |-> tlsRequired, tls_verify |-> tlsVerify, nonce |-> nonce,
     connect_urls |-> urls]
Frame(k, sid, text) == [k |-> k, sid |-> sid, text |-> text, info |-> 0, tok |-> 0]
MsgFrame(sid, tok) == [Frame("MSG", sid, <<>>) EXCEPT !.tok = tok]
InfoFrame(info) == [Frame("INFO", 0, <<>>) EXCEPT !.info = info]

\* The server behind an open socket reads what is written and answers every
\* intact PING with a PONG, which is then in flight.
RECURSIVE Pongs(_)
Pongs(chunks) ==
    IF chunks = <<>> THEN <<>>
    ELSE (IF Head(chunks).k = "PING" /\ ~Head(chunks).cut
          THEN <<Frame("PONG", 0, <<>>)>> ELSE <<>>)
         \o Pongs(Tail(chunks))

\* this.stream.write(data): this.stream === null throws a TypeError; a socket
\* that failed or was ended by the peer takes no more bytes
write(s, chunks) ==
    IF ~s.stream THEN [s EXCEPT !.threw = TRUE]
    ELSE IF s.sock = "open"
    THEN [s EXCEPT !.wire = @ \o chunks, !.net = @ \o Pongs(chunks),
                   !.flog = Logged(@, "written", CallsOf(chunks))]
    ELSE s

\* ------------------------------------------------------------ send buffer
\* fault: the length of a command counted without its closing CR_LF
cmdLenMut(cmd) == cmd.len - 2

\* Buffer.isBuffer(cmd) ? cmd.length : Buffer.byteLength(cmd)
cmdLen(cmd) == cmd.len

\* pSize as createConnection accumulates it over the commands it keeps
RECURSIVE SumLen(_)
SumLen(q) == IF q = <<>> THEN 0 ELSE cmdLen(Head(q)) + SumLen(Tail(q))

\* pending.join(EMPTY): a Buffer in the list is decoded to text on the way
JoinText(q) == [i \in 1..Len(q) |-> IF q[i].buf THEN [q[i] EXCEPT !.cut = TRUE] ELSE q[i]]

\* Buffer.concat(list, totalLength): the result has exactly totalLength bytes;
\* what does not fit is cut off, what is missing is zero-filled.
RECURSIVE ConcatBufs(_, _)
ConcatBufs(q, total) ==
    IF q = <<>> THEN
        IF total > 0 THEN <<[Cmd("ZERO", 0, 0, TRUE, total, NoCb) EXCEPT !.cut = TRUE]>>
        ELSE <<>>
    ELSE IF total <= 0 THEN <<>>
    ELSE IF Head(q).len <= total THEN <<Head(q)>> \o ConcatBufs(Tail(q), total - Head(q).len)
    ELSE <<[Head(q) EXCEPT !.len = total, !.cut = TRUE]>>

AllBufs(q) == \A i \in 1..Len(q) : q[i].buf

flushPending(s) ==
    IF ~s.connected \/ ~s.pendingOk \/ s.pending = <<>> \/ ~s.infoReceived THEN s
    ELSE LET data == IF ~s.pBufs THEN JoinText(s.pending)
                     ELSE IF AllBufs(s.pending) THEN ConcatBufs(s.pending, s.pSize)
                     ELSE s.pending
         IN write([s EXCEPT !.pending = <<>>, !.pSize = 0], data)

sendCommand(s, cmd) ==
    IF s.closed \/ ~s.pendingOk THEN s
    ELSE LET s1 == [s EXCEPT !.pending = Append(@, cmd),
                             !.pSize = @ + cmdLen(cmd),
                             !.pBufs = @ \/ cmd.buf,
                             !.flog = Logged(@, "queued", CallsOf(<<cmd>>)),
                             !.enq = IF s.infoReceived THEN Append(@, cmd) ELSE @]
         IN IF s1.connected THEN
                IF Len(s1.pending) = 1 THEN [s1 EXCEPT !.immediates = @ + 1]
                ELSE IF s1.pSize > FLUSH_THRESHOLD THEN flushPending(s1)
                ELSE s1
            ELSE s1

\* fault: a pattern that is not anchored and needs a leading character, so
\* that it matches UNSUB and not SUB
SUBREMut(c) == c.k = "UNSUB"

\* SUBRE.test(chunk): the chunk, as text, starts with SUB
SUBRE(c) == c.k = "SUB"

\* fault: the old queue walked from its end
RECURSIVE RequeueMut(_, _)
RequeueMut(s, q) ==
    IF q = <<>> THEN s
    ELSE LET rest == RequeueMut(s, Tail(q))
         IN IF SUBRE(Head(q)) THEN rest ELSE sendCommand(rest, Head(q))

\* the loop of stripPendingSubs over the old queue
RECURSIVE Requeue(_, _)
Requeue(s, q) ==
    IF q = <<>> THEN s
    ELSE Requeue(IF SUBRE(Head(q)) THEN s ELSE sendCommand(s, Head(q)), Tail(q))

stripPendingSubs(s) == Requeue([s EXCEPT !.pending = <<>>, !.pSize = 0], s.pending)

\* stream.destroy() on the socket of the last dial: its 'close' event follows
Destroy(s) ==
    IF s.sock \in {"connecting", "open"}
    THEN [s EXCEPT !.sock = "closing", !.net = <<>>, !.tlsCb = FALSE]
    ELSE s

closeStream(s) ==
    LET s1 == IF s.stream THEN [Destroy(s) EXCEPT !.stream = FALSE] ELSE s
        s2 == IF s1.connected \/ s1.closed
              THEN [s1 EXCEPT !.pongsOk = FALSE, !.pongs = <<>>, !.pout = 0,
                              !.pendingOk = FALSE, !.pending = <<>>, !.pSize = 0,
                              !.connected = FALSE]
              ELSE s1
    IN [s2 EXCEPT !.inbound = <<>>]

\* fault: the handle is dropped and the timer left running
clearPingTimerMut(s) == [s EXCEPT !.pingTimer = FALSE]

\* if (this.pingTimer) { clearTimeout(this.pingTimer); delete this.pingTimer; }
clearPingTimer(s) ==
    IF s.pingTimer THEN [s EXCEPT !.pingTimer = FALSE, !.beats = @ - 1] ELSE s

\* this.pingTimer = setTimeout(..., this.options.pingInterval, this)
scheduleHeartbeat(s) == [s EXCEPT !.pingTimer = TRUE, !.beats = @ + 1]

\* fault: ssid counted down instead of set
closeMut(s) ==
    LET s1 == [clearPingTimer(s) EXCEPT !.closed = TRUE, !.listeners = FALSE]
        s2 == closeStream(s1)
    IN [s2 EXCEPT !.ssid = @ - 1, !.subsOk = FALSE, !.subs = <<>>,
                  !.pongsOk = FALSE, !.pongs = <<>>,
                  !.pendingOk = FALSE, !.pending = <<>>, !.pSize = 0]

close(s) ==
    LET s1 == [clearPingTimer(s) EXCEPT !.closed = TRUE, !.listeners = FALSE]
        s2 == closeStream(s1)
    IN [s2 EXCEPT !.ssid = -1, !.subsOk = FALSE, !.subs = <<>>,
                  !.pongsOk = FALSE, !.pongs = <<>>,
                  !.pendingOk = FALSE, !.pending = <<>>, !.pSize = 0]

\* the handler of the application for this event or callback runs: it may
\* call close()
handler(s, kind) == IF kind \in s.closers THEN close(s) ELSE s

\* the events an 'error' listener receives
ErrorEvents ==
    {"error:NATS_PROTOCOL_ERR", "error:CONN_ERR", "error:SECURE_CONN_REQ",
     "error:NON_SECURE_CONN_REQ", "error:CLIENT_CERT_REQ", "error:SIG_REQ",
     "error:SIG_NOT_FUNC", "error:NKEY_OR_JWT_REQ", "error:callback"}

\* this.emit(event, ...): delivered to the listeners registered for it.
emit(s, ev, id) ==
    LET s1 == IF ev = "unsubscribe" THEN [s EXCEPT !.hist = Tally(@, "unsubs", id)] ELSE s
    IN IF s1.listeners /\ ev \in Listened
       THEN handler([s1 EXCEPT !.fired = Append(@, [t |-> ev, id |-> id])],
                    IF ev \in ErrorEvents THEN "error" ELSE ev)
       ELSE s1

\* a user callback is invoked
invoke(s, what, id) ==
    handler([s EXCEPT !.fired = Append(@, [t |-> what, id |-> id]),
                      !.reqs = Noted(@, what, id),
                      !.hist = IF what = "msg" THEN Tally(@, "cbs", id) ELSE @,
                      !.flog = IF what # "flushCb" THEN @
                               ELSE Logged(Logged(@, "twice", @.cbs \cap {id}), "cbs", {id})],
            what)

\* an exception leaves the function that is running
throw(s, id) == invoke(s, "throw", id)
Thrown(s) == s.fired # <<>> /\ s.fired[Len(s.fired)].t = "throw"

\* ------------------------------------------------------------ server list
\* new Server(url): {url, didConnect: false, reconnects: 0}, implicit when
\* learned from an INFO
Server(url, implicit) == [url |-> url, didConnect |-> FALSE, implicit |-> implicit]
NoServer == Server(0, FALSE)

\* the urls with an authority part: user and password, or a token
UserPassUrl == 6
TokenUrl == 7

\* a user, password or token and where the application wrote it: in the url
\* src of an endpoint, or in the options (src 0)
Secret(kind, src) == [kind |-> kind, src |-> src]

\* server.url.auth.split(':'), empty when the url has no auth
UrlAuth(url) ==
    IF url = UserPassUrl THEN <<Secret("user", url), Secret("pass", url)>>
    ELSE IF url = TokenUrl THEN <<Secret("token", url)>>
    ELSE <<>>

\* options.user, options.pass and options.token
Credentials(user, pass, token) == [user |-> user, pass |-> pass, token |-> token]
NoOptions == Credentials(Undefined, Undefined, Undefined)

\* client.user = options.user; client.pass = options.pass;
\* client.token = options.token
CredOf(options) ==
    [user |-> options.user, pass |-> options.pass, token |-> options.token,
     options |-> options]
NoCred == CredOf(NoOptions)

\* currentServer.didConnect = true: currentServer is the object in the list
SetDidConnect(s) ==
    [s EXCEPT !.currentServer.didConnect = TRUE,
              !.servers = [i \in 1..Len(@) |->
                              IF @[i].url = s.currentServer.url
                              THEN [@[i] EXCEPT !.didConnect = TRUE] ELSE @[i]]]

\* fault: the head is not moved to the tail
selectServerMut(s) == [s EXCEPT !.currentServer = Head(s.servers)]

selectServer(s) ==
    LET server == Head(s.servers)
        auth == UrlAuth(server.url)
        c == s.cred
    IN [s EXCEPT !.currentServer = server, !.servers = Append(Tail(@), server),
                 !.cred = IF Len(auth) = 2
                          THEN [c EXCEPT !.user = IF c.options.user = Undefined
                                                  THEN auth[1] ELSE @,
                                         !.pass = IF c.options.pass = Undefined
                                                  THEN auth[2] ELSE @]
                          ELSE IF Len(auth) = 1
                          THEN [c EXCEPT !.token = IF c.options.token = Undefined
                                                   THEN auth[1] ELSE @]
                          ELSE c]

\* ghost: nothing is recorded
NoDials == [on |-> FALSE, urls |-> <<>>]

\* the urls of connect_urls that are not in known, each once, in their order
RECURSIVE Fresh(_, _)
Fresh(urls, known) ==
    IF urls = <<>> THEN <<>>
    ELSE IF Head(urls) \in known THEN Fresh(Tail(urls), known)
    ELSE <<Head(urls)>> \o Fresh(Tail(urls), known \cup {Head(urls)})

\* the argument of 'serversDiscovered' and 'servers', an array of urls, as the
\* number whose binary digits mark the urls it holds
RECURSIVE UrlBits(_)
UrlBits(urls) == IF urls = <<>> THEN 0 ELSE 2 ^ Head(urls) + UrlBits(Tail(urls))

\* fault: the current server is removed like any other implicit one
processServerUpdateMut(s, info) ==
    IF info.connect_urls = <<>> THEN s
    ELSE LET tmp == {info.connect_urls[i] : i \in DOMAIN info.connect_urls}
             Kept(sv) == ~(sv.implicit /\ sv.url \notin tmp)
             kept == SelectSeq(s.servers, Kept)
             newURLs == Fresh(info.connect_urls, {s.servers[i].url : i \in DOMAIN s.servers})
             s1 == [s EXCEPT !.servers = kept \o [i \in DOMAIN newURLs |->
                                                    [Server(newURLs[i], FALSE)
                                                        EXCEPT !.implicit = TRUE]]]
         IN IF newURLs # <<>>
            THEN emit(emit(s1, "serversDiscovered", UrlBits(newURLs)),
                      "servers", UrlBits(newURLs))
            ELSE s1

\* info.connect_urls: implicit servers no longer reported are removed (never
\* the current one), the reported ones not yet known are added as implicit
processServerUpdate(s, info) ==
    IF info.connect_urls = <<>> THEN s
    ELSE LET tmp == {info.connect_urls[i] : i \in DOMAIN info.connect_urls}
             Kept(sv) == ~(sv.implicit /\ s.currentServer.url # sv.url /\ sv.url \notin tmp)
             kept == SelectSeq(s.servers, Kept)
             newURLs == Fresh(info.connect_urls, {s.servers[i].url : i \in DOMAIN s.servers})
             s1 == [s EXCEPT !.servers = kept \o [i \in DOMAIN newURLs |->
                                                    [Server(newURLs[i], FALSE)
                                                        EXCEPT !.implicit = TRUE]]]
         IN IF newURLs # <<>>
            THEN emit(emit(s1, "serversDiscovered", UrlBits(newURLs)),
                      "servers", UrlBits(newURLs))
            ELSE s1

\* ------------------------------------------------------------- connection
\* The walk of createConnection over the old pending queue: keeps a PING
\* whose slot of the pong queue holds a callback, and a chunk whose first
\* three characters are 'P', 'U', 'B' (never true of a Buffer, whose elements
\* are numbers).  acc = [pend, pong, idx].
IsPubText(c) == c.len > 3 /\ ~c.buf /\ c.k = "PUB"

RECURSIVE FilterPending(_, _, _)
FilterPending(q, oldPongs, acc) ==
    IF q = <<>> THEN acc
    ELSE LET cmd == Head(q)
         IN IF cmd.k = "PING" /\ acc.idx < Len(oldPongs) THEN
                LET p == oldPongs[acc.idx + 1]
                    a1 == [acc EXCEPT !.idx = @ + 1]
                IN FilterPending(Tail(q), oldPongs,
                       IF p.t # "undef"
                       THEN [a1 EXCEPT !.pend = Append(@, cmd), !.pong = Append(@, p)]
                       ELSE a1)
            ELSE IF IsPubText(cmd) THEN
                FilterPending(Tail(q), oldPongs, [acc EXCEPT !.pend = Append(@, cmd)])
            ELSE FilterPending(Tail(q), oldPongs, acc)

\* net.createConnection: a new socket; the listeners of the old one, if
\* this.stream still holds one, are removed and it is destroyed
NewSocket(s) ==
    [s EXCEPT !.stream = TRUE, !.sock = "connecting", !.wire = <<>>, !.net = <<>>,
              !.acked = 0, !.hsLen = 0, !.enq = <<>>, !.tlsCb = FALSE,
              !.dials = @ + 1,
              !.dialLog = IF @.on THEN [@ EXCEPT !.urls = Append(@, s.currentServer.url)] ELSE @]

createConnection(s) ==
    LET f == IF s.pendingOk
             THEN FilterPending(s.pending, s.pongs, [pend |-> <<>>, pong |-> <<>>, idx |-> 0])
             ELSE [pend |-> <<>>, pong |-> <<>>, idx |-> 0]
        s1 == [s EXCEPT !.pongsOk = TRUE, !.pongs = f.pong,
                        !.pendingOk = TRUE, !.pending = f.pend,
                        !.pSize = SumLen(f.pend),
                        !.infoReceived = FALSE]
    IN NewSocket(selectServer(s1))

scheduleReconnect(s) ==
    IF s.servers = <<>> THEN s
    ELSE [s EXCEPT !.reconnecting = IF s.wasConnected THEN TRUE ELSE @,
                   !.reconnTimers = @ + 1]

\* fault: no check of this.closed
reconnectMut(s) ==
    LET s1 == createConnection([s EXCEPT !.reconnects = @ + 1])
    IN IF s1.currentServer.didConnect THEN emit(s1, "reconnecting", 0) ELSE s1

reconnect(s) ==
    IF s.closed THEN s
    ELSE LET s1 == createConnection([s EXCEPT !.reconnects = @ + 1])
         IN IF s1.currentServer.didConnect THEN emit(s1, "reconnecting", 0) ELSE s1

\* fault: the event chosen after reconnecting was reset
connectCBMut(s) ==
    LET s1 == SetDidConnect([s EXCEPT !.reconnecting = FALSE, !.reconnects = 0,
                                      !.wasConnected = TRUE])
    IN flushPending(emit(s1, IF s1.reconnecting THEN "reconnect" ELSE "connect", 0))

connectCB(s) ==
    LET event == IF s.reconnecting THEN "reconnect" ELSE "connect"
        s1 == SetDidConnect([s EXCEPT !.reconnecting = FALSE, !.reconnects = 0,
                                      !.wasConnected = TRUE])
    IN flushPending(emit(s1, event, 0))

\* The text of a -ERR is a sequence of phrases (<<>>: no text).
STALE_CONNECTION_ERR == "stale connection"
PERMISSIONS_ERR == "permissions violation"

\* String.prototype.toLowerCase, phrase by phrase
LowerCase(p) ==
    CASE p = "Stale Connection" -> "stale connection"
      [] p = "Permissions Violation" -> "permissions violation"
      [] p = "Authorization Violation" -> "authorization violation"
      [] OTHER -> p

\* fault: the text is compared as it came
toLowerCaseMut(text) == text

toLowerCase(text) == [i \in DOMAIN text |-> LowerCase(text[i])]

\* m.indexOf(phrase) !== -1
Contains(m, phrase) == \E i \in DOMAIN m : m[i] = phrase

\* fault: a stale connection is reported like any other error
processErrMut(s, text) ==
    LET m == toLowerCase(text)
    IN IF Contains(m, PERMISSIONS_ERR) THEN emit(s, "permission_error", 0)
       ELSE closeStream(emit(s, "error:NATS_PROTOCOL_ERR", 0))

processErr(s, text) ==
    LET m == toLowerCase(text)
    IN IF Contains(m, STALE_CONNECTION_ERR) THEN closeStream(s)
       ELSE IF Contains(m, PERMISSIONS_ERR) THEN emit(s, "permission_error", 0)
       ELSE closeStream(emit(s, "error:NATS_PROTOCOL_ERR", 0))

\* options.sig is "undef", "string" (defined and not a function), "fn" (a
\* function that returns a signature) or "throws" (a function that throws);
\* nkey and userjwt tell whether the option is defined (a literal).
NoAuth == [sig |-> "undef", nkey |-> FALSE, userjwt |-> FALSE]

\* fault: the signature is left out of CONNECT
sendConnectMut(s, info) ==
    write(s, <<[ConnectCmd EXCEPT !.jwt = s.optAuth.userjwt, !.nkey = s.optAuth.nkey,
                                  !.user = s.cred.user,
                                  !.pass = IF s.cred.user # Undefined
                                           THEN s.cred.pass ELSE @,
                                  !.auth_token = s.cred.token]>>)

\* calling options.sig throws what the function throws, and a TypeError when
\* it is not a function
sendConnect(s, info) ==
    LET signs == info.nonce /\ s.optAuth.sig # "undef"
    IN IF signs /\ s.optAuth.sig # "fn" THEN throw(s, 0)
       ELSE write(s, <<[ConnectCmd EXCEPT !.sig = signs, !.jwt = s.optAuth.userjwt,
                                         !.nkey = s.optAuth.nkey,
                                         !.user = s.cred.user,
                                         !.pass = IF s.cred.user # Undefined
                                                  THEN s.cred.pass ELSE @,
                                         !.auth_token = s.cred.token]>>)

\* for (var sid in this.subs): integer keys, in ascending order
RECURSIVE SubProtos(_, _)
SubProtos(ss, from) ==
    IF \A x \in DOMAIN ss : x < from THEN <<>>
    ELSE LET sid == CHOOSE x \in DOMAIN ss : x >= from /\ \A y \in DOMAIN ss : y >= from => x <= y
         IN <<SubCmd(sid, ss[sid].n)>> \o SubProtos(ss, sid + 1)

\* fault: the registry is not replayed
sendSubscriptionsMut(s) == s

sendSubscriptions(s) ==
    LET protos == SubProtos(s.subs, 0)
    IN IF protos # <<>> THEN write(s, protos) ELSE s

\* ----------------------------------------------------------- subscriptions
\* this.subs[sid] = {subject, callback, received: 0}.  max and expected are 0
\* when undefined, timeout is the handle of the timer (0: none), callback is
\* "user", "thrower" (a callback of the application that throws), "mux" (the
\* dispatcher of createResponseMux) or "null".
\* n (the subscribe call) is a ghost tag.
Sub(cb, n) == [max |-> 0, received |-> 0, expected |-> 0, timeout |-> 0,
               callback |-> cb, n |-> n]

\* fault: the subscription stays in the registry
DeleteSubMut(s, sid) == s

\* delete this.subs[sid]
DeleteSub(s, sid) ==
    [s EXCEPT !.subs = [x \in (DOMAIN @) \ {sid} |-> @[x]]]

\* a timer of timeout() or request(): its handle h is the call that armed it
\* and id what its callback reports
Timer(h, kind, key, id) == [h |-> h, kind |-> kind, key |-> key, id |-> id]

setTimeout(s, tm) == [s EXCEPT !.timers = @ \cup {tm}]

clearTimeout(s, h) == [s EXCEPT !.timers = {tm \in @ : tm.h # h}]

\* --------------------------------------------------------- request multiplexer
NoMux == [ok |-> FALSE, subscriptionID |-> 0, nextID |-> -1, requestMap |-> <<>>]

\* the key of requestMap a token or a fake (negative) sid stands for
MuxToken(s, token) ==
    LET map == s.respmux.requestMap
    IN IF token < 0 /\ \E p \in DOMAIN map : map[p].id = token
       THEN CHOOSE p \in DOMAIN map : map[p].id = token
       ELSE token

\* TRUE when getMuxRequestConfig returns a configuration
getMuxRequestConfig(s, token) == MuxToken(s, token) \in DOMAIN s.respmux.requestMap

cancelMuxRequest(s, token) ==
    IF ~s.respmux.ok THEN [s EXCEPT !.threw = TRUE]
    ELSE IF ~getMuxRequestConfig(s, token) THEN s
    ELSE LET p == MuxToken(s, token)
             conf == s.respmux.requestMap[p]
             s1 == IF conf.timeout # 0 THEN clearTimeout(s, conf.timeout) ELSE s
         IN [s1 EXCEPT !.respmux.requestMap = [x \in (DOMAIN @) \ {p} |-> @[x]]]

unsubscribe(s, sid, opt_max, n) ==
    IF sid = 0 \/ s.closed THEN s
    ELSE IF sid < 0 THEN cancelMuxRequest([s EXCEPT !.reqs = Noted(@, "cancel", sid)], sid)
    ELSE LET s1 == sendCommand(s, UnsubCmd(sid, opt_max, n))
         IN IF sid \notin DOMAIN s1.subs THEN s1
            ELSE LET sub == [s1.subs[sid] EXCEPT !.max = opt_max]
                 IN IF sub.max = 0 \/ sub.received >= sub.max
                    THEN LET s2 == IF sub.timeout # 0 THEN clearTimeout(s1, sub.timeout)
                                   ELSE s1
                         IN emit(DeleteSub(s2, sid), "unsubscribe", sid)
                    ELSE [s1 EXCEPT !.subs[sid] = sub]

\* fault: the sid taken before the increment
NextSidMut(s) == s.ssid

\* this.ssid += 1
NextSid(s) == s.ssid + 1

subscribe(s, max, cb, n) ==
    IF s.closed THEN throw(s, n)
    ELSE LET sid == NextSid(s)
             s1 == [s EXCEPT !.ssid = sid, !.subs = (sid :> Sub(cb, n)) @@ @,
                             !.sidLog = Append(@, sid),
                             !.hist = IF cb = "user" /\ max # 0
                                      THEN (sid :> [max |-> max, msgs |-> 0, cbs |-> 0,
                                                    unsubs |-> 0]) @@ @
                                      ELSE @]
             s2 == emit(sendCommand(s1, SubCmd(sid, n)), "subscribe", sid)
         IN IF max # 0 THEN unsubscribe(s2, sid, max, n) ELSE s2

\* fault: no check of this.closed
flushMut(s, cb) ==
    IF s.pongsOk THEN
        flushPending(sendCommand([s EXCEPT !.pongs = Append(@, cb)], PING_REQUEST(cb)))
    ELSE s

\* cb is UndefCb when the caller passed no callback
flush(s, cb) ==
    IF s.closed THEN
        IF cb.t = "cb" THEN invoke(s, "flushErr", cb.n) ELSE throw(s, cb.n)
    ELSE IF s.pongsOk THEN
        flushPending(sendCommand([s EXCEPT !.pongs = Append(@, cb)], PING_REQUEST(cb)))
    ELSE s

publish(s, size, buf, withCb, n) ==
    With(sendCommand(s, PubCmd(n, buf, size)), LAMBDA s1 :
       IF withCb THEN flush(s1, UserCb(n))
       ELSE IF s1.closed THEN throw(s1, n)
       ELSE s1)

\* the timer callback of timeout(): callback(sid); that.unsubscribe(sid)
timeoutFired(s, sid) == unsubscribe(invoke(s, "timeoutCb", sid), sid, 0, 0)

timeout(s, sid, expected, n) ==
    IF sid = 0 THEN s
    ELSE IF sid < 0 THEN
        IF ~s.respmux.ok THEN [s EXCEPT !.threw = TRUE]
        ELSE IF ~getMuxRequestConfig(s, sid) THEN s
        ELSE LET p == MuxToken(s, sid)
                 conf == s.respmux.requestMap[p]
                 s1 == IF conf.timeout # 0 THEN clearTimeout(s, conf.timeout) ELSE s
             IN setTimeout([s1 EXCEPT !.respmux.requestMap[p].expected = expected,
                                      !.respmux.requestMap[p].timeout = n],
                           Timer(n, "timeout", sid, sid))
    ELSE IF ~s.subsOk THEN [s EXCEPT !.threw = TRUE]
    ELSE IF sid \notin DOMAIN s.subs THEN s
    ELSE setTimeout([s EXCEPT !.subs[sid].expected = expected, !.subs[sid].timeout = n],
                    Timer(n, "timeout", sid, sid))

\* the callback of the subscription of createResponseMux, for a message
\* whose subject ends in token
muxCallback(s, sid, token) ==
    IF ~getMuxRequestConfig(s, token) THEN s
    ELSE LET conf == s.respmux.requestMap[token]
             s1 == IF conf.callback THEN invoke(s, "reqCb", conf.id) ELSE s
         IN IF conf.expected # 0 THEN
                LET s2 == [s1 EXCEPT !.respmux.requestMap[token].received = @ + 1]
                IN IF conf.received + 1 >= conf.expected
                   THEN emit(cancelMuxRequest(s2, token), "unsubscribe", sid)
                   ELSE s2
            ELSE s1

\* fault: no check that the multiplexer exists already
createResponseMuxMut(s, n) ==
    With(subscribe(s, 0, "mux", n), LAMBDA s1 :
       IF Thrown(s1) THEN s1
       ELSE [s1 EXCEPT !.respmux = [@ EXCEPT !.ok = TRUE, !.subscriptionID = s1.ssid]])

createResponseMux(s, n) ==
    IF s.respmux.ok THEN s
    ELSE With(subscribe(s, 0, "mux", n), LAMBDA s1 :
            IF Thrown(s1) THEN s1
            ELSE [s1 EXCEPT !.respmux = [NoMux EXCEPT !.ok = TRUE,
                                                      !.subscriptionID = s1.ssid]])

\* fault: nextID read and not decremented
initMuxRequestDetailsMut(s, expected, n) ==
    With(createResponseMux(s, n), LAMBDA s1 :
       IF Thrown(s1) THEN s1
       ELSE LET conf == [token |-> n, callback |-> TRUE, id |-> s1.respmux.nextID,
                         received |-> 0, expected |-> IF expected > 0 THEN expected ELSE 0,
                         timeout |-> 0]
            IN [s1 EXCEPT !.respmux.requestMap = (n :> conf) @@ @,
                          !.reqs = (n :> [id |-> conf.id, expected |-> conf.expected,
                                          vals |-> 0, touts |-> 0, ended |-> FALSE,
                                          late |-> FALSE]) @@ @])

\* the token (nuid.next()) is the number of the request call
initMuxRequestDetails(s, expected, n) ==
    With(createResponseMux(s, n), LAMBDA s1 :
       IF Thrown(s1) THEN s1
       ELSE LET conf == [token |-> n, callback |-> TRUE, id |-> s1.respmux.nextID,
                         received |-> 0, expected |-> IF expected > 0 THEN expected ELSE 0,
                         timeout |-> 0]
            IN [s1 EXCEPT !.respmux.nextID = @ - 1,
                          !.respmux.requestMap = (n :> conf) @@ @,
                          !.reqs = (n :> [id |-> conf.id, expected |-> conf.expected,
                                          vals |-> 0, touts |-> 0, ended |-> FALSE,
                                          late |-> FALSE]) @@ @])

\* fault: the request stays in the map after its timeout
requestTimedOutMut(s, token, id, hasCb) ==
    IF hasCb THEN invoke(s, "reqTimeout", id) ELSE s

\* the timer callback of request()
requestTimedOut(s, token, id, hasCb) ==
    cancelMuxRequest(IF hasCb THEN invoke(s, "reqTimeout", id) ELSE s, token)

request(s, max, withTimeout, n) ==
    With(initMuxRequestDetails(s, max, n), LAMBDA s1 :
       IF Thrown(s1) THEN s1
       ELSE With(publish(s1, 1, FALSE, FALSE, n), LAMBDA s2 :
               IF Thrown(s2) \/ ~withTimeout THEN s2
               ELSE setTimeout([s2 EXCEPT !.respmux.requestMap[n].timeout = n],
                               Timer(n, "request", n, s2.respmux.requestMap[n].id))))

\* fault: the callback called without try and catch
callbackMut(s, sid, kind) ==
    IF kind = "thrower" THEN throw(invoke(s, "msg", sid), sid) ELSE invoke(s, "msg", sid)

\* try { sub.callback(...) } catch (error) { this.emit('error', error); }
callback(s, sid, kind) ==
    IF kind = "thrower" THEN emit(invoke(s, "msg", sid), "error:callback", sid)
    ELSE invoke(s, "msg", sid)

processMsg(s00, sid, tok) ==
    LET s == [s00 EXCEPT !.hist = Tally(@, "msgs", sid)]
    IN
    IF sid \notin DOMAIN s.subs THEN s
    ELSE LET sub0 == s.subs[sid]
             rcv == sub0.received + 1
             clr == sub0.timeout # 0 /\ rcv >= sub0.expected
             sub == [sub0 EXCEPT !.received = rcv, !.timeout = IF clr THEN 0 ELSE @]
             s0 == IF clr THEN clearTimeout(s, sub0.timeout) ELSE s
             s1 == [s0 EXCEPT !.subs[sid] = sub]
             s2 == IF sub.max # 0 /\ rcv = sub.max
                       THEN emit(DeleteSub(s1, sid), "unsubscribe", sid)
                   ELSE IF sub.max # 0 /\ rcv > sub.max
                       THEN unsubscribe(s1, sid, 0, 0)
                   ELSE s1
             cb == IF sub.max # 0 /\ rcv > sub.max THEN "null" ELSE sub.callback
         IN IF cb \in {"user", "thrower"} THEN callback(s2, sid, cb)
            ELSE IF cb = "mux" THEN muxCallback(s2, sid, tok)
            ELSE s2

\* ------------------------------------------------------------------ parser
\* optTls: "off" (false), "on" (true), "cert" (an object with a cert).
\* The result is the client and whether a mismatch was reported.
checkTLSMismatch(s, info) ==
    LET s1 == IF info.tls_required /\ s.optTls = "off" THEN [s EXCEPT !.optTls = "on"] ELSE s
    IN IF info.tls_required /\ s1.optTls = "off"
           THEN [s |-> closeStream(emit(s1, "error:SECURE_CONN_REQ", 0)), hit |-> TRUE]
       ELSE IF ~info.tls_required /\ s1.optTls # "off"
           THEN [s |-> closeStream(emit(s1, "error:NON_SECURE_CONN_REQ", 0)), hit |-> TRUE]
       ELSE IF info.tls_verify /\ s1.optTls # "cert"
           THEN [s |-> closeStream(emit(s1, "error:CLIENT_CERT_REQ", 0)), hit |-> TRUE]
       ELSE [s |-> s1, hit |-> FALSE]

\* options.usercreds is undefined: no credentials file is configured
checkNkeyMismatch(s, info) ==
    IF ~info.nonce THEN [s |-> s, hit |-> FALSE]
    ELSE IF s.optAuth.sig = "undef"
        THEN [s |-> closeStream(emit(s, "error:SIG_REQ", 0)), hit |-> TRUE]
    ELSE IF s.optAuth.sig = "string"
        THEN [s |-> closeStream(emit(s, "error:SIG_NOT_FUNC", 0)), hit |-> TRUE]
    ELSE IF ~s.optAuth.nkey /\ ~s.optAuth.userjwt
        THEN [s |-> closeStream(emit(s, "error:NKEY_OR_JWT_REQ", 0)), hit |-> TRUE]
    ELSE [s |-> s, hit |-> FALSE]

\* client.stream = tls.connect(tlsOpts, function() { client.flushPending(); }):
\* the TLS socket wraps the connection, and setupHandlers moves the handlers
\* to it
tlsConnect(s) == [s EXCEPT !.tlsCb = TRUE]

\* fault: push instead of unshift
unshiftMut(q, cb) == Append(q, cb)

\* client.pongs.unshift(cb)
unshift(q, cb) == <<cb>> \o q

\* The first INFO of a socket, after the TLS and NKEY checks passed.
handshake(s, info) ==
    LET s0 == sendConnect(IF info.tls_required THEN tlsConnect(s) ELSE s, info)
        s1 == sendSubscriptions(s0)
        s2 == write([s1 EXCEPT !.pongs = unshift(@, ConnectCb)], <<PING_REQUEST(ConnectCb)>>)
        s3 == [s2 EXCEPT !.infoReceived = TRUE, !.hsLen = Len(s2.wire)]
    IN IF Thrown(s0) \/ ~s0.stream THEN s0 ELSE flushPending(stripPendingSubs(s3))

\* the while loop of processInbound, one frame per round
RECURSIVE parse(_)
parse(s) ==
    IF s.closed \/ s.inbound = <<>> THEN s
    ELSE LET f == Head(s.inbound)
             \* the control line is cut off after it was handled
             Chop(x) == IF x.closed THEN x
                        ELSE IF x.inbound = <<>> THEN [x EXCEPT !.threw = TRUE]
                        ELSE [x EXCEPT !.inbound = Tail(@)]
         IN CASE f.k = "MSG" ->
                    \* an exception that leaves processMsg leaves the loop
                    LET r == processMsg(Chop(s), f.sid, f.tok)
                    IN IF Thrown(r) THEN r ELSE parse(r)
              [] f.k = "OK" -> parse(Chop(s))
              [] f.k = "ERR" -> processErr(s, f.text)
              [] f.k = "PONG" ->
                    LET s1 == [s EXCEPT !.pout = 0, !.acked = @ + 1]
                        has == s1.pongsOk /\ s1.pongs # <<>>
                        cb == IF has THEN Head(s1.pongs) ELSE UndefCb
                        s2 == IF has THEN [s1 EXCEPT !.pongs = Tail(@)] ELSE s1
                        s3 == IF cb.t = "connect" THEN connectCB(s2)
                              ELSE IF cb.t = "cb" THEN invoke(s2, "flushCb", cb.n)
                              ELSE s2
                    IN parse(Chop(s3))
              [] f.k = "PING" -> parse(Chop(sendCommand(s, PONG_RESPONSE)))
              [] f.k = "INFO" ->
                    LET u == processServerUpdate(s, f.info)
                    IN IF u.infoReceived THEN parse(Chop(u))
                       ELSE LET r == checkTLSMismatch(u, f.info)
                                k == checkNkeyMismatch(r.s, f.info)
                                h == handshake(k.s, f.info)
                            IN IF r.hit THEN r.s
                               ELSE IF k.hit THEN k.s
                               ELSE IF Thrown(h) THEN h
                               ELSE parse(Chop(h))

processInbound(s) == IF ~s.stream THEN s ELSE parse(s)

\* ------------------------------------------------------ the parser, by bytes
\* processInbound on the bytes of MSG, +OK, PING and PONG frames (the -ERR and
\* INFO branches are in parse above).  A byte is a character; "CR", "LF" and
\* "SP" stand for \r, \n and the space.
MAX_CONTROL_LINE_SIZE == 1024
AWAITING_CONTROL == 0
AWAITING_MSG_PAYLOAD == 1
CR_LF == <<"CR", "LF">>
CR_LF_LEN == Len(CR_LF)

DigitChars == <<"0", "1", "2", "3", "4", "5", "6", "7", "8", "9">>
IsDigit(b) == \E i \in 1..10 : DigitChars[i] = b
DigitVal(b) == (CHOOSE i \in 1..10 : DigitChars[i] = b) - 1

\* parseInt(str, 10): the leading digits, NaN (-1) without any
RECURSIVE parseInt(_)
parseInt(str) ==
    IF str = <<>> \/ ~IsDigit(str[1]) THEN -1
    ELSE LET lead == CHOOSE j \in 1..Len(str) :
                        /\ \A k \in 1..j : IsDigit(str[k])
                        /\ j = Len(str) \/ ~IsDigit(str[j + 1])
         IN IF lead = 1 THEN DigitVal(str[1])
            ELSE 10 * parseInt(SubSeq(str, 1, lead - 1)) + DigitVal(str[lead])

\* n.toString()
RECURSIVE DigitsOf(_)
DigitsOf(n) ==
    IF n < 10 THEN <<DigitChars[n + 1]>>
    ELSE DigitsOf(n \div 10) \o <<DigitChars[(n % 10) + 1]>>

\* the index after the longest run of bytes that satisfy In, from index i
RunEnd(buf, i, In(_)) ==
    CHOOSE j \in i..(Len(buf) + 1) :
        /\ \A k \in i..(j - 1) : In(buf[k])
        /\ j = Len(buf) + 1 \/ ~In(buf[j])

StartsWith(buf, lit) == Len(buf) >= Len(lit) /\ SubSeq(buf, 1, Len(lit)) = lit

NoMatch == [ok |-> FALSE, len |-> 0, subj |-> <<>>, sid |-> <<>>, reply |-> <<>>, size |-> <<>>]

\* MSG.exec(buf):
\* /^MSG\s+([^\s\r\n]+)\s+([^\s\r\n]+)\s+(([^\s\r\n]+)[^\S\r\n]+)?(\d+)\r\n/i
MSGexec(buf) ==
    LET IsWs(b) == b \in {"SP", "CR", "LF"}
        IsTok(b) == ~IsWs(b)
        IsBlank(b) == b = "SP"
        EndsAt(p) == p + 1 <= Len(buf) /\ buf[p] = "CR" /\ buf[p + 1] = "LF"
        p1 == RunEnd(buf, 4, IsWs)
        p2 == RunEnd(buf, p1, IsTok)
        p3 == RunEnd(buf, p2, IsWs)
        p4 == RunEnd(buf, p3, IsTok)
        p5 == RunEnd(buf, p4, IsWs)
        p6 == RunEnd(buf, p5, IsTok)
        p7 == RunEnd(buf, p6, IsBlank)
        p8 == RunEnd(buf, p7, IsDigit)
        q8 == RunEnd(buf, p5, IsDigit)
        head == /\ StartsWith(buf, <<"M", "S", "G">>)
                /\ p1 > 4 /\ p2 > p1 /\ p3 > p2 /\ p4 > p3 /\ p5 > p4
        m == [NoMatch EXCEPT !.ok = TRUE, !.subj = SubSeq(buf, p1, p2 - 1),
                             !.sid = SubSeq(buf, p3, p4 - 1)]
    IN IF ~head THEN NoMatch
       ELSE IF p6 > p5 /\ p7 > p6 /\ p8 > p7 /\ EndsAt(p8)
           THEN [m EXCEPT !.reply = SubSeq(buf, p5, p6 - 1),
                          !.size = SubSeq(buf, p7, p8 - 1), !.len = p8 + 1]
       ELSE IF q8 > p5 /\ EndsAt(q8)
           THEN [m EXCEPT !.size = SubSeq(buf, p5, q8 - 1), !.len = q8 + 1]
       ELSE NoMatch

\* OK.exec(buf): /^\+OK\s*\r\n/i, the longest match
OKexec(buf) ==
    LET IsWs(b) == b \in {"SP", "CR", "LF"}
        p == RunEnd(buf, 4, IsWs)
        ends == {j \in 4..(p - 2) : buf[j] = "CR" /\ buf[j + 1] = "LF"}
    IN IF StartsWith(buf, <<"+", "O", "K">>) /\ ends # {}
       THEN [NoMatch EXCEPT !.ok = TRUE,
                            !.len = 1 + CHOOSE j \in ends : \A i \in ends : i <= j]
       ELSE NoMatch

\* PONG.exec(buf) and PING.exec(buf): /^PONG\r\n/i, /^PING\r\n/i
PONGexec(buf) ==
    IF StartsWith(buf, <<"P", "O", "N", "G">> \o CR_LF)
    THEN [NoMatch EXCEPT !.ok = TRUE, !.len = 4 + CR_LF_LEN] ELSE NoMatch

PINGexec(buf) ==
    IF StartsWith(buf, <<"P", "I", "N", "G">> \o CR_LF)
    THEN [NoMatch EXCEPT !.ok = TRUE, !.len = 4 + CR_LF_LEN] ELSE NoMatch

RECURSIVE Flatten(_)
Flatten(list) == IF list = <<>> THEN <<>> ELSE Head(list) \o Flatten(Tail(list))

\* fault: the chunks joined whole, trailing CR LF included
BufferConcatMut(list, totalLength) == Flatten(list)

\* Buffer.concat(list, totalLength): cut, or filled with zeroes, to totalLength
BufferConcat(list, totalLength) ==
    LET all == Flatten(list)
    IN IF Len(all) >= totalLength THEN SubSeq(all, 1, totalLength)
       ELSE all \o [i \in 1..(totalLength - Len(all)) |-> "NUL"]

\* what the parser did with a frame: k is MSG (the arguments of processMsg),
\* OK, PONG or PING
Done(k, subj, sid, reply, msg) ==
    [k |-> k, subj |-> subj, sid |-> sid, reply |-> reply, msg |-> msg]

NoPayload == [subj |-> <<>>, sid |-> 0, reply |-> <<>>, size |-> 0, psize |-> 0,
              chunks |-> <<>>]

\* pstate, inbound (<<>>: null or empty) and payload (chunks <<>>: undefined)
\* of a new client; out is what the parser has done so far
NewParser == [pstate |-> AWAITING_CONTROL, inbound |-> <<>>, payload |-> NoPayload,
              out |-> <<>>]

\* inbound.slice(psize), null when nothing is left
Slice(buf, psize) == IF psize >= Len(buf) THEN <<>> ELSE SubSeq(buf, psize + 1, Len(buf))

\* the while loop of processInbound over bytes
RECURSIVE processBytes(_)
processBytes(ps) ==
    IF ps.inbound = <<>> THEN ps
    ELSE IF ps.pstate = AWAITING_CONTROL THEN
        LET buf == SubSeq(ps.inbound, 1, Min(Len(ps.inbound), MAX_CONTROL_LINE_SIZE))
            Chop(x, m) == [x EXCEPT !.inbound = Slice(@, m.len)]
            Did(k) == [ps EXCEPT !.out = Append(@, Done(k, <<>>, 0, <<>>, <<>>))]
        IN IF MSGexec(buf).ok THEN
               LET m == MSGexec(buf)
                   size == parseInt(m.size)
               IN processBytes(Chop([ps EXCEPT
                      !.payload = [subj |-> m.subj, sid |-> parseInt(m.sid),
                                   reply |-> m.reply, size |-> size,
                                   psize |-> size + CR_LF_LEN, chunks |-> <<>>],
                      !.pstate = AWAITING_MSG_PAYLOAD], m))
           ELSE IF OKexec(buf).ok THEN processBytes(Chop(Did("OK"), OKexec(buf)))
           ELSE IF PONGexec(buf).ok THEN processBytes(Chop(Did("PONG"), PONGexec(buf)))
           ELSE IF PINGexec(buf).ok THEN processBytes(Chop(Did("PING"), PINGexec(buf)))
           ELSE ps
    ELSE
        LET pl == ps.payload
        IN IF Len(ps.inbound) < pl.psize
           THEN [ps EXCEPT !.payload.chunks = Append(@, ps.inbound),
                           !.payload.psize = @ - Len(ps.inbound),
                           !.inbound = <<>>]
           ELSE LET msg == IF pl.chunks # <<>>
                           THEN BufferConcat(Append(pl.chunks,
                                                    SubSeq(ps.inbound, 1, pl.psize)),
                                             pl.size)
                           ELSE SubSeq(ps.inbound, 1, pl.size)
                IN processBytes([ps EXCEPT
                       !.inbound = Slice(@, pl.psize),
                       !.out = Append(@, Done("MSG", pl.subj, pl.sid, pl.reply, msg)),
                       !.pstate = AWAITING_CONTROL,
                       !.payload = NoPayload])

\* stream.on('data') for the byte parser
onData(ps, data) ==
    processBytes([ps EXCEPT !.inbound = IF @ # <<>> THEN @ \o data ELSE data])

\* the bytes the server writes for a frame
FrameBytes(f) ==
    IF f.k = "MSG"
    THEN <<"M", "S", "G", "SP">> \o f.subj \o <<"SP">> \o DigitsOf(f.sid) \o <<"SP">>
         \o (IF f.reply # <<>> THEN f.reply \o <<"SP">> ELSE <<>>)
         \o DigitsOf(Len(f.msg)) \o CR_LF \o f.msg \o CR_LF
    ELSE IF f.k = "OK" THEN <<"+", "O", "K">> \o CR_LF
    ELSE IF f.k = "PONG" THEN <<"P", "O", "N", "G">> \o CR_LF
    ELSE <<"P", "I", "N", "G">> \o CR_LF

RECURSIVE StreamBytes(_)
StreamBytes(fs) == IF fs = <<>> THEN <<>> ELSE FrameBytes(Head(fs)) \o StreamBytes(Tail(fs))

\* ------------------------------------------------------------ construction
\* options the model keeps fixed
OptServers == <<1, 2>>          \* options.servers, with noRandomize

\* parseOptions and initState; closed is undefined (falsy) until close()
initState ==
    [closed |-> FALSE, connected |-> FALSE, wasConnected |-> FALSE,
     reconnecting |-> FALSE, reconnects |-> 0, stream |-> FALSE,
     infoReceived |-> FALSE, pendingOk |-> TRUE, pending |-> <<>>,
     pongsOk |-> FALSE, pongs |-> <<>>, pSize |-> 0, pBufs |-> FALSE,
     ssid |-> 1, subsOk |-> TRUE, subs |-> <<>>, pout |-> 0,
     pingTimer |-> FALSE, inbound |-> <<>>,
     servers |-> [i \in 1..Len(OptServers) |-> Server(OptServers[i], FALSE)],
     currentServer |-> NoServer, listeners |-> TRUE, optTls |-> "off",
     optAuth |-> NoAuth, tlsCb |-> FALSE,
     optReconnect |-> TRUE, optMaxReconnectAttempts |-> OptMaxReconnectAttempts,
     optWaitOnFirstConnect |-> FALSE, dialLog |-> NoDials, cred |-> NoCred, closers |-> {},
     respmux |-> NoMux, timers |-> {},
     immediates |-> 0, reconnTimers |-> 0, sock |-> "none",
     wire |-> <<>>, net |-> <<>>, acked |-> 0,
     fired |-> <<>>, dials |-> 0, ncall |-> 0, hsLen |-> 0,
     enq |-> <<>>, sidLog |-> <<>>, closeCalls |-> 0,
     afterClose |-> {}, reqs |-> <<>>, hist |-> <<>>,
     recv |-> <<>>, beats |-> 0, threw |-> FALSE, flog |-> NoLog]

\* function Client(opts): parseOptions, initState, createConnection
Client == createConnection(initState)

Starts(s) ==
       /\ closed = s.closed /\ connected = s.connected
       /\ wasConnected = s.wasConnected /\ reconnecting = s.reconnecting
       /\ reconnects = s.reconnects /\ stream = s.stream
       /\ infoReceived = s.infoReceived /\ pendingOk = s.pendingOk
       /\ pending = s.pending /\ pongsOk = s.pongsOk /\ pongs = s.pongs
       /\ pSize = s.pSize /\ pBufs = s.pBufs /\ ssid = s.ssid
       /\ subsOk = s.subsOk /\ subs = s.subs /\ pout = s.pout
       /\ pingTimer = s.pingTimer /\ inbound = s.inbound
       /\ servers = s.servers /\ currentServer = s.currentServer
       /\ listeners = s.listeners /\ optTls = s.optTls
       /\ optAuth = s.optAuth /\ tlsCb = s.tlsCb
       /\ optReconnect = s.optReconnect
       /\ optMaxReconnectAttempts = s.optMaxReconnectAttempts
       /\ optWaitOnFirstConnect = s.optWaitOnFirstConnect /\ dialLog = s.dialLog /\ cred = s.cred /\ closers = s.closers
       /\ respmux = s.respmux /\ timers = s.timers
       /\ immediates = s.immediates /\ reconnTimers = s.reconnTimers
       /\ sock = s.sock /\ wire = s.wire /\ net = s.net
       /\ acked = s.acked /\ fired = s.fired
       /\ dials = s.dials /\ ncall = s.ncall /\ hsLen = s.hsLen
       /\ enq = s.enq /\ sidLog = s.sidLog /\ closeCalls = s.closeCalls
       /\ afterClose = s.afterClose /\ reqs = s.reqs /\ hist = s.hist
       /\ recv = s.recv /\ beats = s.beats /\ threw = s.threw
       /\ flog = s.flog

InitClient == Starts(Client)

\* px when the byte parser is not under study
Idle == [on |-> FALSE]

Init == InitClient /\ px = Idle

\* ------------------------------------------------------------- API calls
\* An event handled after close() is remembered by its kind.
Seen(s, kind) == IF s.closed THEN [s EXCEPT !.afterClose = @ \cup {kind}] ELSE s

Call == [Begin EXCEPT !.ncall = @ + 1]

SubMaxes == {0, 1, 2}         \* opts.max of subscribe, opt_max of unsubscribe

SubscribeWith(maxes) ==
    /\ ~closed /\ ncall < MaxCalls
    /\ \E max \in maxes : Commit(subscribe(Call, max, "user", ncall + 1))

CallSubscribe == SubscribeWith(SubMaxes)

\* subscribe(subject, callback) or subscribe(subject, {max: 1}, callback)
CallSubscribeOnce == SubscribeWith({0, 1})

\* the sids the application holds: those subscribe returned to it, and the
\* ids request returned
UserSids == {sidLog[i] : i \in 1..Len(sidLog)} \ {respmux.subscriptionID}
RequestIds == {reqs[t].id : t \in DOMAIN reqs}

UnsubscribeOf(sid) ==
    /\ ~closed /\ ncall < MaxCalls
    /\ \E max \in SubMaxes : Commit(unsubscribe(Call, sid, max, ncall + 1))

CallUnsubscribe == \E sid \in UserSids \cup RequestIds : UnsubscribeOf(sid)

\* publish(subject, msg [, callback]): a string or a Buffer, small or large
PublishInputs ==
    {[size |-> 1, buf |-> FALSE, cb |-> FALSE], [size |-> 1, buf |-> TRUE, cb |-> FALSE],
     [size |-> BigPayload, buf |-> FALSE, cb |-> FALSE], [size |-> 1, buf |-> FALSE, cb |-> TRUE]}

CallPublish ==
    /\ ~closed /\ ncall < MaxCalls
    /\ \E in \in PublishInputs : Commit(publish(Call, in.size, in.buf, in.cb, ncall + 1))

CallFlush ==
    /\ ~closed /\ ncall < MaxCalls
    /\ \E withCb \in BOOLEAN :
          Commit(flush(Call, IF withCb THEN UserCb(ncall + 1) ELSE UndefCb))

\* the argument expected of the timeout calls the application makes
TimeoutExpected == 1

\* timeout(sid, ms, expected, callback) on a sid subscribe or request returned
TimeoutOf(sid) ==
    /\ ~closed /\ ncall < MaxCalls
    /\ Commit(timeout(Call, sid, TimeoutExpected, ncall + 1))

CallTimeout == \E sid \in UserSids \cup RequestIds : TimeoutOf(sid)

ReqMaxes == {0, 1}               \* opts.max of request

\* request(subject, msg, {max, timeout}, callback)
CallRequest ==
    /\ ~closed /\ ncall < MaxCalls
    /\ \E max \in ReqMaxes, withTimeout \in BOOLEAN :
          Commit(request(Call, max, withTimeout, ncall + 1))

CallClose ==
    /\ closeCalls < MaxCloses
    /\ Commit(close([Begin EXCEPT !.closeCalls = @ + 1]))

\* ---------------------------------------------------------- socket events
\* the INFO frames a server sends on accepting a connection
Infos == {Info(FALSE, FALSE, FALSE, <<>>)}

\* stream.on('connect'); the server then sends its INFO
ConnectWith(infos) ==
    /\ sock = "connecting"
    /\ \E info \in infos :
          Commit([scheduleHeartbeat([clearPingTimer(Begin) EXCEPT !.connected = TRUE])
                     EXCEPT !.sock = "open", !.net = <<InfoFrame(info)>>])

OnStreamConnect == ConnectWith(Infos)

\* stream.on('error'); the socket is destroyed and its 'close' event follows
streamError(s) ==
    IF s.wasConnected /\ s.currentServer.didConnect THEN s
    ELSE LET s1 == IF ~s.wasConnected /\ ~s.currentServer.didConnect THEN
                       IF s.optWaitOnFirstConnect THEN SetDidConnect(s)
                       ELSE [s EXCEPT !.servers = SubSeq(@, 1, Len(@) - 1)]
                   ELSE s
             s2 == IF ~s1.wasConnected /\ s1.servers = <<>>
                   THEN emit(s1, "error:CONN_ERR", 0) ELSE s1
         IN closeStream(s2)

OnStreamError ==
    /\ sock \in {"connecting", "open"}
    /\ Commit(Destroy(streamError(Begin)))

\* fault: the limit compared with > instead of >=
streamCloseMut(s) ==
    LET s1 == emit(closeStream(s), "disconnect", 0)
    IN IF s1.closed \/ ~s1.optReconnect
          \/ (s1.reconnects > s1.optMaxReconnectAttempts
                 /\ s1.optMaxReconnectAttempts # -1)
       THEN emit(s1, "close", 0)
       ELSE scheduleReconnect(s1)

\* stream.on('close'), after an error, a destroy or the end of the peer
streamClose(s) ==
    LET s1 == emit(closeStream(s), "disconnect", 0)
    IN IF s1.closed \/ ~s1.optReconnect
          \/ (s1.reconnects >= s1.optMaxReconnectAttempts
                 /\ s1.optMaxReconnectAttempts # -1)
       THEN emit(s1, "close", 0)
       ELSE scheduleReconnect(s1)

OnStreamClose ==
    /\ sock \in {"open", "closing"}
    /\ Commit([streamClose(Seen(Begin, "close"))
                  EXCEPT !.sock = "closed", !.net = <<>>, !.tlsCb = FALSE])

\* stream.on('data'): the data is appended to inbound, then processInbound
Data(s, frames) ==
    LET IsErr(f) == f.k = "ERR"
    IN processInbound([s EXCEPT !.inbound = @ \o frames, !.recv = SelectSeq(frames, IsErr)])

\* stream.on('data'): one or more frames arrive together
OnStreamData ==
    /\ sock = "open" /\ net # <<>>
    /\ \E k \in 1..Len(net) :
          Commit(Data([Begin EXCEPT !.net = SubSeq(net, k + 1, Len(net))],
                      SubSeq(net, 1, k)))

\* ------------------------------------------------------------------ timers
\* the callback of scheduleHeartbeat
heartbeat(s) ==
    LET s0 == emit([s EXCEPT !.pingTimer = FALSE, !.beats = @ - 1], "pingtimer", 0)
    IN IF s0.closed THEN s0
       ELSE IF s0.stream /\ s0.sock # "connecting" THEN
           LET s1 == [emit(s0, "pingcount", s0.pout) EXCEPT !.pout = @ + 1]
           IN IF s1.pout > OptMaxPingOut THEN processErr(s1, <<STALE_CONNECTION_ERR>>)
              ELSE LET s2 == sendCommand(s1, PING_REQUEST(UndefCb))
                       s3 == IF s2.pongsOk THEN [s2 EXCEPT !.pongs = Append(@, UndefCb)]
                             ELSE s2
                   IN scheduleHeartbeat(s3)
       ELSE scheduleHeartbeat(s0)

\* what the client has queued or written on this socket
Traffic == Len(wire) + Len(pending)

HeartbeatTimer ==
    /\ beats > 0
    /\ Traffic < MaxWire
    /\ Commit(heartbeat(Begin))

\* the timer of scheduleReconnect fires; the model stops dialing after max dials
RedialWithin(max) ==
    /\ reconnTimers > 0
    /\ closed \/ dials < max
    /\ Commit(reconnect(Seen([Begin EXCEPT !.reconnTimers = @ - 1], "reconnect")))

ReconnectTimer == RedialWithin(MaxDials)

\* a timer of timeout() or of request() expires
TimerFires ==
    \E tm \in timers :
        LET s == Seen([Begin EXCEPT !.timers = @ \ {tm}], "timer")
        IN IF tm.kind = "timeout" THEN Commit(timeoutFired(s, tm.key))
           ELSE Commit(requestTimedOut(s, tm.key, tm.id, TRUE))

\* setImmediate(function() { self.flushPending(); })
ImmediateFlush ==
    /\ immediates > 0
    /\ Commit(flushPending(Seen([Begin EXCEPT !.immediates = @ - 1], "immediate")))

\* ------------------------------------------------------------------ server
\* A frame the server sends of its own accord arrives in a 'data' event of
\* its own, after the frames already in flight (the INFO and the PONGs, which
\* answer what the client wrote) were delivered.

Count(q, P(_)) == Cardinality({i \in 1..Len(q) : P(q[i])})

OnServerPing ==
    /\ sock = "open" /\ net = <<>> /\ Traffic < MaxWire /\ Len(inbound) < MaxNet
    /\ Commit(Data(Begin, <<Frame("PING", 0, <<>>)>>))

ErrTexts ==
    {<<>>, <<"Stale Connection">>, <<"Permissions Violation">>,
     <<"Authorization Violation">>, <<"Stale Connection", "Permissions Violation">>}

OnServerErr ==
    /\ sock = "open" /\ net = <<>> /\ Len(inbound) < MaxNet
    /\ \E text \in ErrTexts : Commit(Data(Begin, <<Frame("ERR", 0, text)>>))

\* a message for a subscription the server has received the SUB of
OnServerMsg ==
    /\ sock = "open" /\ net = <<>> /\ Len(inbound) < MaxNet
    /\ \E i \in 1..Len(wire) :
          LET sid == wire[i].id
              IsMsg(f) == f.k = "MSG" /\ f.sid = sid
          IN /\ wire[i].k = "SUB"
             /\ sid \in DOMAIN subs =>
                   subs[sid].received + Count(inbound, IsMsg) < MaxRecv
             /\ sid \in DOMAIN hist =>
                   hist[sid].msgs + Count(inbound, IsMsg) < MaxRecv
             /\ \E tok \in IF respmux.ok /\ respmux.subscriptionID = sid
                            THEN 1..ncall ELSE {0} :
                   Commit(Data(Begin, <<MsgFrame(sid, tok)>>))

\* ---------------------------------------------------------- specifications
\* the socket and the event loop
Lifecycle ==
    \/ OnStreamConnect \/ OnStreamError \/ OnStreamClose \/ OnStreamData
    \/ ReconnectTimer \/ ImmediateFlush

\* an application that subscribes, unsubscribes, publishes and flushes
Next ==
    \/ Lifecycle
    \/ CallSubscribe \/ CallUnsubscribe \/ CallPublish \/ CallFlush

Spec == Init /\ [][Next]_vars

\* PING and PONG: the heartbeat, flush, and a server that pings or reports
\* an error
NextPing ==
    \/ Lifecycle
    \/ HeartbeatTimer \/ CallFlush \/ OnServerPing \/ OnServerErr

SpecPing == Init /\ [][NextPing]_vars

\* an application that closes the client
NextClose ==
    \/ Lifecycle
    \/ HeartbeatTimer \/ CallSubscribe \/ CallFlush \/ CallClose

SpecClose == Init /\ [][NextClose]_vars

\* subscriptions with a timeout, requests, and their messages
NextTimers ==
    \/ Lifecycle
    \/ CallSubscribeOnce \/ CallTimeout \/ CallRequest \/ CallClose
    \/ TimerFires \/ OnServerMsg

SpecTimers == Init /\ [][NextTimers]_vars

\* requests, their replies and timers, and subscriptions beside them
NextMux ==
    \/ Lifecycle
    \/ CallSubscribe \/ CallRequest \/ CallUnsubscribe \/ CallTimeout
    \/ TimerFires \/ OnServerMsg

SpecMux == Init /\ [][NextMux]_vars

\* subscriptions with a max and the messages for them, across reconnections
NextAuto ==
    \/ Lifecycle
    \/ CallSubscribe \/ OnServerMsg

SpecAuto == Init /\ [][NextAuto]_vars

\* stream.on('close') of a socket the client destroyed
OnDestroyed == sock = "closing" /\ OnStreamClose

\* OnStreamData is enabled: data is in flight to an open socket
DataDue == sock = "open" /\ net # <<>>

\* A server that is slow to answer PINGs and never fails or ends a connection:
\* the heartbeat and flush.  The event loop runs every socket event and every
\* reconnect timer that is due; the fairness of OnStreamData is weak fairness
\* written with its guard, which is what ENABLED <<OnStreamData>>_vars comes to.
NextStale ==
    \/ OnStreamConnect \/ OnDestroyed \/ OnStreamData
    \/ ReconnectTimer \/ ImmediateFlush
    \/ HeartbeatTimer \/ CallFlush

SpecStale ==
    /\ Init /\ [][NextStale]_vars
    /\ WF_vars(OnStreamConnect) /\ WF_vars(OnDestroyed) /\ WF_vars(ReconnectTimer)
    /\ ([]<>~DataDue \/ []<><<OnStreamData>>_vars)

\* The parser alone: a stream of well-formed frames reaches it cut into
\* 'data' events at any places.
MaxFrames == 2

Frames ==
    {Done("MSG", <<"s">>, 1, <<>>, <<>>),
     Done("MSG", <<"s">>, 1, <<>>, <<"a">>),
     Done("MSG", <<"s">>, 2, <<"r">>, <<"CR", "LF">>),
     Done("OK", <<>>, 0, <<>>, <<>>),
     Done("PONG", <<>>, 0, <<>>, <<>>),
     Done("PING", <<>>, 0, <<>>, <<>>)}

Streams == UNION {[1..n -> Frames] : n \in 1..MaxFrames}

\* where the stream was cut, by what the parser holds after the 'data' event:
\* a part of a control line, a part of a payload, or a payload whose CR LF is
\* still to come
CutAt(ps) ==
    IF ps.pstate = AWAITING_CONTROL THEN (IF ps.inbound # <<>> THEN {"control"} ELSE {})
    ELSE IF ps.payload.psize = CR_LF_LEN THEN {"crlf"}
    ELSE IF CR_LF_LEN < ps.payload.psize /\ ps.payload.psize < ps.payload.size + CR_LF_LEN
        THEN {"payload"}
    ELSE {}

InitChunks ==
    /\ InitClient
    /\ \E fs \in Streams :
          px = [on |-> TRUE, sent |-> fs, stream |-> StreamBytes(fs),
                rest |-> StreamBytes(fs), ps |-> NewParser, cuts |-> {}]

\* the next n bytes arrive in one 'data' event
OnChunk ==
    /\ px.on /\ px.rest # <<>>
    /\ \E n \in 1..Len(px.rest) :
          LET ps == onData(px.ps, SubSeq(px.rest, 1, n))
          IN px' = [px EXCEPT !.rest = SubSeq(@, n + 1, Len(@)), !.ps = ps,
                              !.cuts = IF n < Len(px.rest) THEN @ \cup CutAt(ps) ELSE @]
    /\ UNCHANGED <<closed, connected, wasConnected, reconnecting, reconnects, stream,
                   infoReceived, pendingOk, pending, pongsOk, pongs, pSize, pBufs, ssid,
                   subsOk, subs, pout, pingTimer, inbound, servers, currentServer,
                   listeners, optTls, optAuth, optReconnect, optMaxReconnectAttempts, optWaitOnFirstConnect,
          dialLog, cred, closers,
                   tlsCb, respmux, immediates, timers,
                   reconnTimers, sock, wire, net, acked, fired, dials, ncall, hsLen, enq, sidLog,
                   closeCalls, afterClose, reqs, hist, recv, beats, threw, flog>>

SpecChunks == InitChunks /\ [][OnChunk]_vars

\* The handshake: clients configured with and without TLS and with the
\* signing options, and servers that require TLS, a client certificate or a
\* signed nonce, or none of them.
TlsOpts == {"off", "on", "cert"}

AuthOpts ==
    {NoAuth,
     [sig |-> "fn", nkey |-> TRUE, userjwt |-> FALSE],
     [sig |-> "fn", nkey |-> FALSE, userjwt |-> TRUE],
     [sig |-> "fn", nkey |-> FALSE, userjwt |-> FALSE],
     [sig |-> "string", nkey |-> TRUE, userjwt |-> FALSE],
     [sig |-> "undef", nkey |-> TRUE, userjwt |-> FALSE],
     [sig |-> "throws", nkey |-> TRUE, userjwt |-> FALSE]}

\* NATS.connect(opts)
ClientWith(tls, auth) == createConnection([initState EXCEPT !.optTls = tls, !.optAuth = auth])

InitHello ==
    /\ \E tls \in TlsOpts, auth \in AuthOpts : Starts(ClientWith(tls, auth))
    /\ px = Idle

HelloInfos ==
    {Info(req, verify, nonce, <<>>) : req \in BOOLEAN, verify \in BOOLEAN, nonce \in BOOLEAN}

OnStreamHello == ConnectWith(HelloInfos)

\* the callback of tls.connect: the TLS session is set up
OnSecureConnect ==
    /\ tlsCb /\ sock = "open"
    /\ Commit(flushPending([Begin EXCEPT !.tlsCb = FALSE]))

\* connect_urls of the INFO frames a server sends later on
UrlUpdates == {<<>>, <<3>>}

\* an INFO the server sends of its own accord on an open connection
OnServerInfo ==
    /\ sock = "open" /\ net = <<>> /\ Len(inbound) < MaxNet
    /\ \E urls \in UrlUpdates :
          Commit(Data(Begin, <<InfoFrame(Info(FALSE, FALSE, FALSE, urls))>>))

NextHello ==
    \/ OnStreamHello \/ OnStreamError \/ OnStreamClose \/ OnStreamData
    \/ ReconnectTimer \/ ImmediateFlush \/ OnSecureConnect \/ OnServerInfo
    \/ CallSubscribeOnce

SpecHello == InitHello /\ [][NextHello]_vars

\* the commands on a socket: an application that subscribes, unsubscribes,
\* publishes and flushes, and a server that sends further INFO frames
NextOrder == Next \/ OnServerInfo

SpecOrder == Init /\ [][NextOrder]_vars

\* Redialling: clients with reconnect on and off and with a limit of
\* attempts or none, a server that fails, and an application that closes.
ReconnectOpts == BOOLEAN
MaxReconnectOpts == {-1, 0, 1}

InitRedial ==
    /\ \E re \in ReconnectOpts, max \in MaxReconnectOpts :
          Starts(createConnection([initState EXCEPT !.optReconnect = re,
                                                    !.optMaxReconnectAttempts = max]))
    /\ px = Idle

NextRedial ==
    \/ Lifecycle
    \/ HeartbeatTimer \/ CallClose

SpecRedial == InitRedial /\ [][NextRedial]_vars

\* flush: an application that publishes and flushes, and the heartbeat
InitFlush ==
    /\ Starts(createConnection([initState EXCEPT !.flog.on = TRUE]))
    /\ px = Idle

NextFlush ==
    \/ Lifecycle
    \/ HeartbeatTimer \/ CallPublish \/ CallFlush

SpecFlush == InitFlush /\ [][NextFlush]_vars

\* subscribe(subject, function() { throw ... })
CallSubscribeThrower ==
    /\ ~closed /\ ncall < MaxCalls
    /\ Commit(subscribe(Call, 0, "thrower", ncall + 1))

\* two messages for a subscription the server has received the SUB of, in
\* one 'data' event
OnServerBurst ==
    /\ sock = "open" /\ net = <<>> /\ inbound = <<>>
    /\ \E i \in 1..Len(wire) :
          LET sid == wire[i].id
          IN /\ wire[i].k = "SUB"
             /\ sid \in DOMAIN subs => subs[sid].received + 2 <= MaxRecv
             /\ sid \in DOMAIN hist => hist[sid].msgs + 2 <= MaxRecv
             /\ Commit(Data(Begin, <<MsgFrame(sid, 0), MsgFrame(sid, 0)>>))

\* callbacks that throw, beside callbacks that do not
NextThrow ==
    \/ Lifecycle
    \/ CallSubscribe \/ CallSubscribeThrower \/ OnServerMsg \/ OnServerBurst

SpecThrow == Init /\ [][NextThrow]_vars

\* ------------------------------------------------------ the server list
\* Array.prototype.indexOf: the index (from 0) of the first element that is
\* strictly equal to x, -1 when there is none
indexOf(q, x) ==
    IF \E i \in 1..Len(q) : q[i] = x
    THEN (CHOOSE i \in 1..Len(q) : q[i] = x /\ \A j \in 1..(i - 1) : q[j] # x) - 1
    ELSE -1

\* a url given as a string in the options
Str(u) == [href |-> u]

\* parseOptions with options.servers an array (noRandomize), and options.url
parseOptions(s, list, url) ==
    LET svs == [i \in 1..Len(list) |-> Server(list[i], FALSE)]
    IN [s EXCEPT !.servers =
            IF url # Undefined /\ indexOf(svs, url) = -1
            THEN <<Server(url.href, FALSE)>> \o svs ELSE svs]

\* addServer(uri), with noRandomize
addServer(s, uri) == [s EXCEPT !.servers = Append(@, Server(uri, FALSE))]

ServerLists == {<<1>>, <<1, 2>>}

InitServers ==
    /\ \E wait \in BOOLEAN, list \in ServerLists :
          Starts(createConnection(parseOptions(
              [initState EXCEPT !.optWaitOnFirstConnect = wait,
                                !.dialLog = [on |-> TRUE, urls |-> <<>>]],
              list, Undefined)))
    /\ px = Idle

\* the server announces the other members of its cluster in its first INFO
GossipInfos == {Info(FALSE, FALSE, FALSE, <<>>), Info(FALSE, FALSE, FALSE, <<3>>)}

OnStreamGossip == ConnectWith(GossipInfos)

\* connect_urls of an INFO sent when the cluster changes
GossipUrls == {<<3>>, <<4>>, <<3, 4>>, <<2, 3>>}

GossipWith(urls) ==
    /\ sock = "open" /\ net = <<>> /\ infoReceived /\ inbound = <<>>
    /\ Commit(Data(Begin, <<InfoFrame(Info(FALSE, FALSE, FALSE, urls))>>))

OnServerGossip == \E urls \in GossipUrls : GossipWith(urls)

AddedUrl == 5

CallAddServer ==
    /\ ~closed /\ ncall < MaxCalls
    /\ \A i \in 1..Len(servers) : servers[i].url # AddedUrl
    /\ Commit(addServer(Call, AddedUrl))

\* the study of the server list follows the rotation one dial further
MaxServerDials == 3

ServerRedial == RedialWithin(MaxServerDials)

NextServers ==
    \/ OnStreamGossip \/ OnStreamError \/ OnStreamClose \/ OnStreamData
    \/ ServerRedial \/ OnServerGossip \/ CallAddServer

SpecServers == InitServers /\ [][NextServers]_vars

\* servers that accept the connection at most to drop it with a socket error
\* before the handshake completes: a socket closes only after its error, and
\* only the first INFO is delivered
OnErrorClose == sock = "closing" /\ OnStreamClose

OnFirstInfo ==
    /\ sock = "open" /\ stream /\ ~infoReceived /\ inbound = <<>>
    /\ net # <<>> /\ Head(net).k = "INFO"
    /\ OnStreamData

NextRefuse ==
    \/ OnStreamGossip \/ OnStreamError \/ OnErrorClose \/ OnFirstInfo
    \/ ServerRedial \/ ImmediateFlush \/ CallSubscribe

SpecRefuse == InitServers /\ [][NextRefuse]_vars

\* servers that do not announce others: the list changes only when a socket
\* error removes an endpoint, and never with waitOnFirstConnect
NextRotate ==
    \/ OnStreamConnect \/ OnStreamError \/ OnStreamClose \/ OnStreamData
    \/ ServerRedial

SpecRotate == InitServers /\ [][NextRotate]_vars

\* options.url given beside options.servers: absent, an url of the list, or
\* another one.  The ghost keeps the two options.
UrlOpts == {Undefined, Str(1), Str(3)}

InitUrl ==
    /\ \E list \in ServerLists, url \in UrlOpts :
          Starts(createConnection(parseOptions(
              [initState EXCEPT !.dialLog = [on |-> TRUE, urls |-> <<>>,
                                             optUrl |-> url, optServers |-> list]],
              list, url)))
    /\ px = Idle

SpecUrl == InitUrl /\ [][NextRotate]_vars

\* options.servers with and without credentials in the urls
CredLists == {<<1, 2>>, <<UserPassUrl, 2>>, <<TokenUrl, 2>>, <<UserPassUrl, TokenUrl>>}

\* options without credentials, with user and pass, with token; parseOptions
\* throws when both user and token are given
CredOptions ==
    {NoOptions, Credentials(Secret("user", 0), Secret("pass", 0), Undefined),
     Credentials(Undefined, Undefined, Secret("token", 0))}

InitCreds ==
    /\ \E list \in CredLists, options \in CredOptions :
          Starts(createConnection(parseOptions(
              [initState EXCEPT !.cred = CredOf(options),
                                !.dialLog = [on |-> TRUE, urls |-> <<>>]],
              list, Undefined)))
    /\ px = Idle

\* a client of endpoints with credentials that loses its connections
SpecCreds == InitCreds /\ [][NextRotate]_vars

\* the callbacks and the listeners the claim on close() names
HandlerKinds ==
    {"msg", "reqCb", "flushCb", "serversDiscovered", "servers", "error",
     "permission_error"}

\* an application one of whose handlers calls close()
InitHandlers ==
    /\ \E kind \in HandlerKinds : Starts([Client EXCEPT !.closers = {kind}])
    /\ px = Idle

\* one connection, whose first INFO may announce an endpoint
NextHandlers ==
    \/ OnStreamGossip \/ OnStreamData \/ ImmediateFlush
    \/ CallSubscribeOnce \/ CallFlush \/ CallRequest
    \/ OnServerMsg \/ OnServerErr

SpecHandlers == InitHandlers /\ [][NextHandlers]_vars

\* calls made on a client after close()
ClosedSubscribe ==
    /\ closed /\ ncall < MaxCalls
    /\ \E max \in SubMaxes : Commit(subscribe(Call, max, "user", ncall + 1))

ClosedPublish(in) ==
    /\ closed /\ ncall < MaxCalls
    /\ Commit(publish(Call, in.size, in.buf, in.cb, ncall + 1))

ClosedFlush(withCb) ==
    /\ closed /\ ncall < MaxCalls
    /\ Commit(flush(Call, IF withCb THEN UserCb(ncall + 1) ELSE UndefCb))

\* the first sid a subscribe call returns, and the id of the first request
ClosedSids == {2, -1}

ClosedUnsubscribe ==
    /\ closed /\ ncall < MaxCalls
    /\ \E sid \in ClosedSids, max \in SubMaxes :
          Commit(unsubscribe(Call, sid, max, ncall + 1))

\* an application that goes on calling after close()
NextClosed ==
    \/ Lifecycle
    \/ CallSubscribe \/ CallFlush \/ CallClose
    \/ ClosedSubscribe \/ (\E in \in PublishInputs : ClosedPublish(in))
    \/ (\E withCb \in BOOLEAN : ClosedFlush(withCb)) \/ ClosedUnsubscribe

SpecClosed == Init /\ [][NextClosed]_vars

\* ------------------------------------------------------------- properties
NoThrow == ~threw

\* The handshake of the current socket is done and the socket is alive.
Established == stream /\ connected /\ infoReceived /\ sock = "open"

SubCount(q, sid) == Cardinality({i \in 1..Len(q) : q[i].k = "SUB" /\ q[i].id = sid})

\* what the client has passed to the queue on this socket: written after the
\* handshake, or still pending
Queued == SubSeq(wire, hsLen + 1, Len(wire)) \o pending

\* a command of a publish, subscribe or unsubscribe call of the application
AppCmd(c) == c.k \in {"PUB", "SUB", "UNSUB"} /\ c.n > 0

InCallOrder(q) ==
    \A i, j \in 1..Len(q) : (i < j /\ AppCmd(q[i]) /\ AppCmd(q[j])) => q[i].n <= q[j].n

\* C1: in an established session every subscription of the registry has exactly
\* one SUB written or about to be written on the socket, and no socket ever
\* carries two SUBs for one sid, whenever subscribe was called and however
\* often the client has reconnected.
C1_OneSubPerSession ==
    /\ Established => \A sid \in DOMAIN subs : SubCount(wire \o pending, sid) = 1
    /\ \A i, j \in 1..Len(wire) :
          (wire[i].k = "SUB" /\ wire[j].k = "SUB" /\ wire[i].id = wire[j].id) => i = j

\* a session after a reconnect in which two subscriptions, at least one of
\* them written by the handshake, have their SUB on the socket
C1_Witness ==
    /\ Established /\ dials >= 2 /\ Cardinality(DOMAIN subs) >= 2
    /\ \A sid \in DOMAIN subs : SubCount(wire, sid) = 1
    /\ \E i \in 1..hsLen : wire[i].k = "SUB"

PubIds(q) == {q[i].n : i \in {x \in 1..Len(q) : IsPubText(q[x])}}
CbIds(q) == {q[i].n : i \in {x \in 1..Len(q) : q[x].t = "cb"}}
FlushCbIds(f) == {f[i].id : i \in {x \in 1..Len(f) : f[x].t = "flushCb"}}

\* C2: when an established connection is lost and the client is not closed,
\* every text PUB still in the pending queue stays queued and every flush
\* callback waiting in the pong queue stays there or is invoked.
C2_LossPreservesQueues ==
    [][(Established /\ ~connected' /\ ~closed')
          => /\ PubIds(pending) \subseteq PubIds(pending') \cup PubIds(wire')
             /\ CbIds(pongs) \subseteq CbIds(pongs') \cup FlushCbIds(fired')]_vars

\* C3: a publish called while the client is disconnected and not closed leaves
\* its PUB in the pending queue.
C3_DisconnectedPublishQueued ==
    [][(CallPublish /\ ~connected)
          => \E i \in 1..Len(pending') :
                pending'[i].k = "PUB" /\ pending'[i].n = ncall']_vars

\* C4: in an established session the chunks written after the handshake,
\* followed by the pending queue, are exactly the commands passed to
\* sendCommand, in order and undamaged, whichever way they were flushed.
C4_WireIsEnqueueOrder == Established => Queued = enq

\* a session in which a Buffer and a text command went through the queue and
\* all of it is written
C4_Witness ==
    /\ Established /\ pending = <<>> /\ Len(enq) >= 2
    /\ \E i, j \in hsLen + 1..Len(wire) : wire[i].buf /\ ~wire[j].buf

\* C5 as stated: the PUB, SUB and UNSUB commands on a socket are in the order
\* of the calls that produced them.
C5_WireInCallOrder == InCallOrder(wire)

\* C5: the commands that go through the pending queue (PUB, UNSUB, and the
\* SUB of a subscribe call made after the handshake) are written in call
\* order; the SUBs the handshake writes from the registry come ahead of them.
C5_QueueInCallOrder ==
    /\ InCallOrder(Queued)
    /\ \A i \in 1..Min(hsLen, Len(wire)) : wire[i].k \in {"CONNECT", "SUB", "PING"}

\* a publish followed by a subscribe, both before the handshake: the SUB is
\* on the socket ahead of the PUB
C5_Witness ==
    \E i, j \in 1..Len(wire) :
        /\ i <= hsLen /\ hsLen < j
        /\ wire[i].k = "SUB" /\ wire[j].k = "PUB" /\ wire[j].n < wire[i].n

Pings(q) == SelectSeq(q, LAMBDA c : c.k = "PING")
Waiters(q) == [i \in 1..Len(q) |-> q[i].cb]
\* the PINGs written on this socket that no PONG has answered
Unanswered == SubSeq(Pings(wire), acked + 1, Len(Pings(wire)))

\* C6: while the client is not closed and its socket has not failed, the
\* waiters of the PINGs written and not yet answered, followed by those of the
\* PINGs in the pending queue, are the pong queue, entry by entry.
C6_PingsMatchPongs ==
    (~closed /\ pongsOk /\ (sock \in {"connecting", "open"} \/ ~stream))
        => Waiters((IF sock = "open" THEN Unanswered ELSE <<>>) \o Pings(pending)) = pongs

\* a heartbeat PING and a flush PING wait for their PONGs after an earlier
\* PONG was consumed
C6_Witness ==
    /\ ~closed /\ sock = "open" /\ acked >= 1 /\ Len(pongs) >= 2
    /\ \E i, j \in 1..Len(pongs) : pongs[i].t = "undef" /\ pongs[j].t = "cb"

\* C7: once the client is closed no callback is invoked and no event is
\* delivered.
C7_SilentAfterClose == [][closed => fired' = <<>>]_vars

\* C8: once the client is closed no socket is opened, nothing is written and
\* no handler fails, whatever event is handled.
C8_NoDialAfterClose ==
    [][closed => (dials' = dials /\ wire' = wire /\ stream' = stream /\ threw' = threw)]_vars

\* close() was called while the reconnect timer was armed, and the timer has
\* fired since
C8_Witness == closed /\ "reconnect" \in afterClose /\ reconnTimers = 0

\* the fields of the client, its socket and its timers
ClientState ==
    <<closed, connected, wasConnected, reconnecting, reconnects, stream,
      infoReceived, pendingOk, pending, pongsOk, pongs, pSize, pBufs, ssid,
      subsOk, subs, pout, pingTimer, inbound, servers, currentServer,
      listeners, optTls, respmux, immediates, timers, reconnTimers, sock, wire, net>>

\* C9: close() on a closed client changes no field of the client, touches no
\* socket and no timer, delivers no event and does not throw.
C9_CloseIdempotent ==
    [][(CallClose /\ closed) => (UNCHANGED ClientState /\ fired' = <<>> /\ ~threw')]_vars

\* close() was called twice
C9_Witness == closed /\ closeCalls >= 2

\* C10 as stated: the sids are positive and strictly increasing and the first
\* one is 1.
C10_SidsFromOne ==
    /\ \A i \in 1..Len(sidLog) : sidLog[i] > 0
    /\ \A i \in 2..Len(sidLog) : sidLog[i - 1] < sidLog[i]
    /\ sidLog # <<>> => sidLog[1] = 1

\* C10: the sids subscribe returns are positive and strictly increasing and
\* the first one is 2.
C10_SidsFromTwo ==
    /\ \A i \in 1..Len(sidLog) : sidLog[i] > 0
    /\ \A i \in 2..Len(sidLog) : sidLog[i - 1] < sidLog[i]
    /\ sidLog # <<>> => sidLog[1] = 2

\* two subscribe calls have returned
C10_Witness == Len(sidLog) >= 2

\* the ids request has returned, by token: negative, strictly decreasing from
\* -1, distinct among the outstanding requests and from every sid
MuxIdsOk ==
    /\ \A t \in DOMAIN reqs : reqs[t].id < 0
    /\ \A t1, t2 \in DOMAIN reqs : t1 < t2 => reqs[t2].id < reqs[t1].id
    /\ \A t \in DOMAIN reqs : (\A u \in DOMAIN reqs : t <= u) => reqs[t].id = -1
    /\ \A t1, t2 \in DOMAIN respmux.requestMap :
          t1 # t2 => respmux.requestMap[t1].id # respmux.requestMap[t2].id
    /\ \A i \in 1..Len(sidLog) : sidLog[i] \notin RequestIds

\* C11: the ids of requests are strictly decreasing negative integers
\* starting at -1, distinct among outstanding requests and from all sids; an
\* unsubscribe or timeout call with a request id leaves the registry and the
\* send queue alone, and one with a sid leaves the request map alone.
C11_MuxIdsAndRouting ==
    [][/\ MuxIdsOk'
       /\ \A id \in RequestIds :
             (UnsubscribeOf(id) \/ TimeoutOf(id))
                 => (subs' = subs /\ pending' = pending /\ wire' = wire)
       /\ \A sid \in UserSids :
             (UnsubscribeOf(sid) \/ TimeoutOf(sid)) => respmux' = respmux]_vars

\* a request was cancelled by an unsubscribe with its id while the
\* subscription of the multiplexer is in the registry
C11_Witness ==
    /\ respmux.subscriptionID \in DOMAIN subs
    /\ \E t \in DOMAIN reqs :
          reqs[t].ended /\ reqs[t].touts = 0 /\ t \notin DOMAIN respmux.requestMap

\* C12: the callback of a request with expected = N gets at most N values
\* and at most one REQ_TIMEOUT, no value after REQ_TIMEOUT or a cancel, and
\* no REQ_TIMEOUT once it got N values.
C12_RequestCallbackBounds ==
    \A t \in DOMAIN reqs :
        /\ reqs[t].touts <= 1 /\ ~reqs[t].late
        /\ reqs[t].expected > 0 =>
              /\ reqs[t].vals <= reqs[t].expected
              /\ ~(reqs[t].vals >= reqs[t].expected /\ reqs[t].touts >= 1)

\* a request with expected = 1 and a timer got its reply, and a second reply
\* for it has been parsed since
C12_Witness ==
    \E t \in DOMAIN reqs :
        /\ reqs[t].expected = 1 /\ reqs[t].vals = 1 /\ reqs[t].touts = 0
        /\ t \notin DOMAIN respmux.requestMap
        /\ respmux.subscriptionID \in DOMAIN subs
        /\ subs[respmux.subscriptionID].received >= 2

MuxSubs == {sid \in DOMAIN subs : subs[sid].callback = "mux"}

\* C13: once a request was made the registry holds exactly one subscription
\* of the multiplexer, the one the first request created, and no UNSUB for
\* it is written or queued; before, it holds none.
C13_OneMuxSubscription ==
    ~closed =>
        IF respmux.ok
        THEN /\ MuxSubs = {respmux.subscriptionID}
             /\ \A i \in 1..Len(wire \o pending) :
                   LET c == (wire \o pending)[i]
                   IN ~(c.k = "UNSUB" /\ c.id = respmux.subscriptionID)
        ELSE MuxSubs = {}

\* two requests were made and one of them has timed out
C13_Witness ==
    /\ ~closed /\ Cardinality(DOMAIN reqs) >= 2
    /\ \E t \in DOMAIN reqs : reqs[t].touts = 1

\* C14: a subscription created with {max: N} that has had k messages processed,
\* on whatever sessions, had its callback invoked min(k, N) times, is in the
\* registry exactly while k < N, and had one 'unsubscribe' event emitted once
\* the N-th message was processed (none before).
C14_AutoUnsubscribe ==
    \A sid \in DOMAIN hist :
        LET h == hist[sid]
        IN h.max # 0 =>
              /\ h.cbs = Min(h.msgs, h.max)
              /\ (subsOk /\ sid \in DOMAIN subs) <=> h.msgs < h.max
              /\ h.unsubs = IF h.msgs >= h.max THEN 1 ELSE 0

\* more messages than max were processed, the last one on the second connection
C14_Witness ==
    /\ dials = 2 /\ connected /\ fired = <<>>
    /\ \E sid \in DOMAIN hist :
          /\ hist[sid].max = 1 /\ hist[sid].msgs = 2 /\ hist[sid].cbs = 1
          /\ hist[sid].unsubs = 1

\* C15: in a step that invokes the callback of a subscription for its max-th
\* message and emits 'unsubscribe' for its sid, the callback comes first; so
\* does the callback of a request before the 'unsubscribe' of the dispatcher
\* that ends it.
C15_UnsubscribeAfterCallback ==
    \A i, j \in 1..Len(fired) :
        /\ fired[i].t = "unsubscribe" /\ fired[j].t = "msg" /\ fired[j].id = fired[i].id
               => j < i
        /\ fired[i].t = "unsubscribe" /\ fired[j].t = "reqCb" => j < i

\* a -ERR line that processErr reports as a permissions violation
IsPermissionErr(f) ==
    /\ f.k = "ERR"
    /\ Contains(toLowerCase(f.text), PERMISSIONS_ERR)
    /\ ~Contains(toLowerCase(f.text), STALE_CONNECTION_ERR)

\* C16: a 'data' event emits one permission_error for each permissions
\* violation -ERR line it brings and none otherwise, leaves the socket open,
\* and the parser consumes the line and every frame after it (nothing
\* received stays unparsed on a live stream).
C16_ParsesPastPermissionErr ==
    LET IsEvent(e) == e.t = "permission_error"
    IN /\ Count(fired, IsEvent) = Count(recv, IsPermissionErr)
       /\ Count(recv, IsPermissionErr) > 0 => stream /\ sock = "open"
       /\ stream /\ ~closed => inbound = <<>>

\* the ways a phrase is written in the texts the server sends
Spellings(phrase) ==
    IF phrase = STALE_CONNECTION_ERR THEN {"stale connection", "Stale Connection"}
    ELSE IF phrase = PERMISSIONS_ERR THEN {"permissions violation", "Permissions Violation"}
    ELSE {phrase}

Mentions(text, phrase) == \E i \in DOMAIN text : text[i] \in Spellings(phrase)

\* C17: the data event that brings a -ERR line to the head of the parser's
\* buffer has exactly one of three outcomes, by the text in whatever case:
\* 'stale connection' closes the stream and emits nothing; otherwise
\* 'permissions violation' emits permission_error alone and leaves the stream
\* and the socket as they were; any other text emits 'error' with
\* NATS_PROTOCOL_ERR alone and closes the stream.
C17_ErrClassified ==
    [][(recv' # <<>> /\ stream /\ inbound = <<>>) =>
          LET text == recv'[1].text
          IN IF Mentions(text, STALE_CONNECTION_ERR)
                 THEN ~stream' /\ fired' = <<>>
             ELSE IF Mentions(text, PERMISSIONS_ERR)
                 THEN /\ fired' = <<[t |-> "permission_error", id |-> 0]>>
                      /\ stream' /\ sock' = sock
             ELSE /\ fired' = <<[t |-> "error:NATS_PROTOCOL_ERR", id |-> 0]>>
                  /\ ~stream']_vars

\* a -ERR 'Stale Connection' closed the stream of an established connection
\* without an event
C17_Witness ==
    /\ recv # <<>> /\ recv[1].text = <<"Stale Connection">>
    /\ ~stream /\ fired = <<>> /\ wasConnected

\* the step queued a heartbeat PING (one without a callback)
HeartbeatPing ==
    /\ Len(pending') = Len(pending) + 1
    /\ pending'[Len(pending')] = PING_REQUEST(UndefCb)

\* C19: pout never exceeds maxPingOut + 1; a heartbeat on a live socket sends
\* its PING and counts it when pout was below maxPingOut, and sends none when
\* the count would pass maxPingOut (it closes the stream instead, which on a
\* connected client resets pout); a step that processes a PONG leaves pout
\* at 0; at most one heartbeat timer is pending.
C19_PingsOutstanding ==
    [][/\ pout' <= OptMaxPingOut + 1
       /\ beats' <= 1
       /\ acked' > acked => pout' = 0
       /\ (HeartbeatTimer /\ stream /\ sock # "connecting") =>
             IF pout < OptMaxPingOut
             THEN pout' = pout + 1 /\ (pendingOk => HeartbeatPing)
             ELSE ~HeartbeatPing /\ ~stream' /\ (connected => pout' = 0)]_vars

\* the heartbeat has sent maxPingOut PINGs without a PONG and its timer is
\* pending again, on the second connection
C19_Witness ==
    /\ pout = OptMaxPingOut /\ beats = 1 /\ connected /\ dials = 2

\* the heartbeat found the established first connection stale: the stream is
\* closed and no heartbeat timer was set again
StaleDetected ==
    /\ ~closed /\ ~stream /\ beats = 0 /\ wasConnected /\ dials = 1

ReconnectEmitted == \E i \in 1..Len(fired) : fired[i].t = "reconnect"

\* C18: no step emits 'error'; 'reconnect' is emitted at most once per
\* reconnection (only while reconnecting, which it ends); and once the heartbeat
\* has closed the stale first connection the client dials again and 'reconnect'
\* is emitted, unless the new connection is lost as well.
C18_StaleReconnects ==
    /\ [][\A i \in 1..Len(fired') :
             fired'[i].t \notin {"error:NATS_PROTOCOL_ERR", "error:CONN_ERR"}]_vars
    /\ [][\A i, j \in 1..Len(fired') :
             fired'[i].t = "reconnect" =>
                 /\ reconnecting /\ ~reconnecting'
                 /\ fired'[j].t = "reconnect" => i = j]_vars
    /\ StaleDetected ~> (ReconnectEmitted \/ (dials > 1 /\ ~stream))

\* 'reconnect' is emitted on the second connection, dialled after the
\* heartbeat closed the first
C18_Witness ==
    /\ ReconnectEmitted /\ dials = 2 /\ connected /\ ~reconnecting

IsPrefix(a, b) == Len(a) <= Len(b) /\ SubSeq(b, 1, Len(a)) = a

\* C20: however the byte stream is cut into 'data' events, what the parser
\* has done so far is a prefix of what it does with the stream in one piece,
\* and once the last byte has arrived it is the same: every frame sent, in the
\* order sent, each message with its subject, sid, reply and the payload of
\* exactly size bytes, and nothing left in the buffer.
C20_ChunkingEquivalence ==
    px.on =>
        LET whole == onData(NewParser, px.stream)
        IN /\ whole.out = [i \in 1..Len(px.sent) |-> px.sent[i]]
           /\ IsPrefix(px.ps.out, whole.out)
           /\ px.rest = <<>> =>
                 /\ px.ps.out = whole.out
                 /\ px.ps.inbound = <<>> /\ px.ps.pstate = AWAITING_CONTROL

\* a stream of two messages has arrived, cut inside a control line, inside a
\* payload and between a payload and its CR LF
C20_Witness ==
    /\ px.on /\ px.rest = <<>> /\ px.cuts = {"control", "payload", "crlf"}
    /\ Len(px.ps.out) = 2
    /\ \A i \in 1..2 : px.ps.out[i].k = "MSG"

\* the first INFO of the socket is the next frame to be delivered
FirstInfoDue ==
    /\ sock = "open" /\ stream /\ ~infoReceived /\ inbound = <<>>
    /\ net # <<>> /\ Head(net).k = "INFO"

TlsErrors == {"error:SECURE_CONN_REQ", "error:NON_SECURE_CONN_REQ", "error:CLIENT_CERT_REQ"}

\* the events of ev among those run by the last step
FiredOf(f, evs) == SelectSeq(f, LAMBDA e : e.t \in evs)

\* the outcome the specification lists for info and options.tls
TlsOutcome(info, tls) ==
    IF info.tls_required /\ tls = "off" THEN <<"error:SECURE_CONN_REQ">>
    ELSE IF ~info.tls_required /\ tls # "off" THEN <<"error:NON_SECURE_CONN_REQ">>
    ELSE IF info.tls_verify /\ tls # "cert" THEN <<"error:CLIENT_CERT_REQ">>
    ELSE <<>>

\* C21: the 'data' event that brings the first INFO of a socket emits the TLS
\* error listed for info.tls_required, info.tls_verify and options.tls, and
\* then closes the stream with nothing written; in every other combination
\* it emits no TLS error.
C21_TlsReconciliation ==
    [][(FirstInfoDue /\ OnStreamData)
          => LET want == TlsOutcome(Head(net).info, optTls)
                 got == FiredOf(fired', TlsErrors)
             IN /\ Len(got) = Len(want)
                /\ \A i \in 1..Len(want) : got[i].t = want[i]
                /\ want # <<>> => ~stream' /\ wire' = <<>>]_vars

CountOf(q, k) == Cardinality({i \in 1..Len(q) : q[i].k = k})

\* the commands of q that are not SUBs
NotSubs(q) == SelectSeq(q, LAMBDA c : c.k # "SUB")

\* C22: nothing is written on a socket before its handshake, and a socket
\* carries one CONNECT, at its head, whatever INFO frames follow the first.
\* The step that handles the first INFO writes CONNECT, one SUB for each
\* entry of the registry in ascending sid order, and the handshake PING; what
\* was pending (its SUBs stripped) follows in its order or stays queued in
\* that order.  What is written on a socket is never taken back.
C22_HandshakeOrder ==
    /\ [](/\ ~infoReceived => wire = <<>>
          /\ (infoReceived /\ sock = "open")
                => wire # <<>> /\ wire[1].k = "CONNECT" /\ CountOf(wire, "CONNECT") = 1)
    /\ [][(~infoReceived /\ infoReceived')
             => LET n == Cardinality(DOMAIN subs')
                IN /\ hsLen' = n + 2 /\ Len(wire') >= n + 2
                   /\ wire'[1].k = "CONNECT"
                   /\ \A i \in 2..(n + 1) : wire'[i].k = "SUB" /\ wire'[i].id \in DOMAIN subs'
                   /\ \A i, j \in 2..(n + 1) : i < j => wire'[i].id < wire'[j].id
                   /\ wire'[n + 2].k = "PING" /\ wire'[n + 2].cb = ConnectCb
                   /\ SubSeq(wire', n + 3, Len(wire')) \o pending' = NotSubs(pending)]_vars
    /\ [][(dials' = dials /\ sock' = "open") => IsPrefix(wire, wire')]_vars

\* on the first socket a subscribe and a publish were made before the INFO,
\* a later INFO was handled (it announced a server), and the PUB is written
\* after the handshake
C22_Witness ==
    /\ dials = 1 /\ Established /\ Len(servers) = 3
    /\ hsLen = 3 /\ Len(wire) > hsLen /\ wire[2].k = "SUB" /\ wire[2].n = 2
    /\ wire[hsLen + 1].k = "PUB" /\ wire[hsLen + 1].n = 1

\* the step processes the first PONG of the socket, the one that answers the
\* PING of the handshake
HandshakeCompletes == dials' = dials /\ acked = 0 /\ acked' >= 1

\* C23: a step emits 'connect' or 'reconnect' exactly when it processes the
\* PONG that answers the handshake PING of the socket, and then emits one of
\* them once: 'connect' if no handshake was completed before, 'reconnect'
\* otherwise.  That a handshake was completed is never forgotten, so
\* 'connect' is emitted at most once.
C23_ConnectThenReconnect ==
    /\ [][LET c == Len(FiredOf(fired', {"connect"}))
              r == Len(FiredOf(fired', {"reconnect"}))
          IN /\ (c + r >= 1) => HandshakeCompletes
             /\ (HandshakeCompletes /\ listeners') => c + r = 1
             /\ c = 1 => ~wasConnected /\ wasConnected'
             /\ r = 1 => wasConnected]_vars
    /\ [][wasConnected => wasConnected']_vars

\* 'reconnect' is emitted on the second socket, after PONGs for the handshake
\* and for a later PING were processed
C23_Witness ==
    /\ dials = 2 /\ wasConnected /\ acked >= 2
    /\ \E i \in 1..Len(fired) : fired[i].t = "reconnect"

\* C24: reconnects counts the dials made since the initial dial or the last
\* completed handshake (each redial adds one, only a completed handshake
\* resets it), and with reconnect on and a limit N other than -1 it never
\* exceeds N; the socket 'close' that finds it at N emits 'close' and sets no
\* reconnect timer.  With reconnect off no reconnect timer is ever set and
\* no second socket opened.  With N = -1 every socket 'close' of a client
\* that is not closed and has servers left sets a reconnect timer.
C24_ReconnectLimit ==
    /\ [](/\ (optReconnect /\ optMaxReconnectAttempts # -1)
                => reconnects <= optMaxReconnectAttempts
          /\ ~optReconnect => reconnTimers = 0 /\ dials = 1)
    /\ [][/\ dials' # dials => dials' = dials + 1 /\ reconnects' = reconnects + 1
          /\ (dials' = dials /\ reconnects' # reconnects)
                => reconnects' = 0 /\ HandshakeCompletes]_vars
    /\ [][OnStreamClose
             => /\ (optReconnect /\ optMaxReconnectAttempts # -1
                      /\ reconnects >= optMaxReconnectAttempts)
                   => /\ reconnTimers' = reconnTimers
                      /\ listeners => Len(FiredOf(fired', {"close"})) = 1
                /\ (optReconnect /\ optMaxReconnectAttempts = -1 /\ ~closed
                      /\ servers # <<>>)
                   => reconnTimers' = reconnTimers + 1]_vars

\* with a limit of one attempt the second socket closed without a handshake:
\* 'close' was emitted and no timer is set
C24_Witness ==
    /\ optReconnect /\ optMaxReconnectAttempts = 1 /\ reconnects = 1 /\ dials = 2
    /\ sock = "closed" /\ ~closed /\ reconnTimers = 0
    /\ \E i \in 1..Len(fired) : fired[i].t = "close"

\* the calls whose flush callback the step has invoked, in order
FlushIds(f) == [i \in DOMAIN FiredOf(f, {"flushCb"}) |-> FiredOf(f, {"flushCb"})[i].id]

\* the callbacks of the PINGs whose PONGs the step has processed, in order
AnsweredCbs ==
    LET ps == SubSeq(Pings(wire), acked + 1, acked')
        cbs == SelectSeq(ps, LAMBDA c : c.cb.t = "cb")
    IN [i \in DOMAIN cbs |-> cbs[i].cb.n]

\* C25: a flush callback is invoked at most once; the callbacks a step invokes
\* are those of the PINGs written on the socket whose PONGs the step
\* processes, in the order of the PINGs; and when the callback of a call is
\* invoked, the command of every earlier call (and of the call itself) that
\* was queued has been written to a socket.
C25_FlushCallback ==
    /\ [](flog.twice = {})
    /\ [][FlushIds(fired') # <<>>
             => /\ dials' = dials
                /\ FlushIds(fired') = AnsweredCbs
                /\ \A i \in DOMAIN FlushIds(fired') :
                      \A m \in flog'.queued :
                          m <= FlushIds(fired')[i] => m \in flog'.written]_vars

\* C26: when the callback of timeout() is invoked for a subscription, the
\* subscription is still registered (it was not unsubscribed) and has had
\* fewer than expected messages delivered; the callback is invoked once, and
\* the subscription is gone from the registry when the step ends.
C26_TimeoutCallback ==
    [][\A i \in 1..Len(fired') :
          (fired'[i].t = "timeoutCb" /\ fired'[i].id > 0)
             => LET sid == fired'[i].id
                IN /\ subsOk /\ sid \in DOMAIN subs
                   /\ subs[sid].received < TimeoutExpected
                   /\ Len(FiredOf(fired', {"timeoutCb"})) = 1
                   /\ sid \notin DOMAIN subs']_vars

\* how often the callback of sid ran in the step, and how often an 'error'
\* event was emitted for an exception of it
Ran(f, what, sid) == Cardinality({i \in 1..Len(f) : f[i].t = what /\ f[i].id = sid})

\* C27: no exception leaves a step; a callback that throws has each of its
\* exceptions emitted as an 'error' event right after it ran; every message
\* a step delivers to a subscription without max is counted and handed to the
\* callback once; and on a live stream nothing received is left unparsed.
C27_CallbackIsolated ==
    [][/\ ~Thrown([fired |-> fired'])
       /\ \A i \in 1..Len(fired') :
             (fired'[i].t = "msg" /\ subsOk /\ fired'[i].id \in DOMAIN subs
                  /\ subs[fired'[i].id].callback = "thrower")
                => /\ i < Len(fired')
                   /\ fired'[i + 1] = [t |-> "error:callback", id |-> fired'[i].id]
       /\ \A sid \in DOMAIN subs :
             (subs[sid].max = 0 /\ subsOk' /\ sid \in DOMAIN subs')
                => Ran(fired', "msg", sid) = subs'[sid].received - subs[sid].received
       /\ (OnServerBurst \/ OnServerMsg) => inbound' = <<>>
       /\ OnServerBurst =>
             \E sid \in DOMAIN hist' \cup DOMAIN subs' :
                IF sid \in DOMAIN hist' THEN hist'[sid].msgs = hist[sid].msgs + 2
                ELSE subs'[sid].received = subs[sid].received + 2]_vars

\* two messages in one 'data' event for a callback that throws: it ran twice
\* and two 'error' events were emitted
C27_Witness ==
    /\ Len(fired) = 4 /\ fired[1].t = "msg" /\ fired[2].t = "error:callback"
    /\ fired[3].t = "msg" /\ fired[4].t = "error:callback"
    /\ inbound = <<>> /\ stream

\* what a call on a closed client must leave alone
Untouched ==
    /\ wire' = wire /\ pending' = pending /\ pendingOk' = pendingOk /\ pSize' = pSize
    /\ subs' = subs /\ subsOk' = subsOk /\ pongs' = pongs /\ pongsOk' = pongsOk
    /\ respmux' = respmux /\ immediates' = immediates

\* the call ended by throwing, and did nothing else an observer can see
Threw == Len(fired') = 1 /\ fired'[1].t = "throw"

\* C28: on a closed client subscribe throws; publish and flush hand the
\* error to the callback if there is one and throw otherwise; unsubscribe
\* does nothing; and none of them writes, queues a command or changes the
\* registry, the pong queue or the request map.
C28_ClosedClientCalls ==
    [][/\ ClosedSubscribe => Threw /\ Untouched
       /\ \A in \in PublishInputs :
             ClosedPublish(in)
                => /\ IF in.cb THEN fired' = <<[t |-> "flushErr", id |-> ncall']>>
                      ELSE Threw
                   /\ Untouched
       /\ \A withCb \in BOOLEAN :
             ClosedFlush(withCb)
                => /\ IF withCb THEN fired' = <<[t |-> "flushErr", id |-> ncall']>>
                      ELSE Threw
                   /\ Untouched
       /\ ClosedUnsubscribe => fired' = <<>> /\ Untouched]_vars

\* publish with a callback on a client that was closed with a subscription
\* registered and its socket open: the callback got the error
C28_Witness ==
    /\ closed /\ sidLog # <<>> /\ dials = 1 /\ sock = "closing"
    /\ fired = <<[t |-> "flushErr", id |-> ncall]>>

NkeyErrors == {"error:SIG_REQ", "error:SIG_NOT_FUNC", "error:NKEY_OR_JWT_REQ"}

\* the error the specification lists for the signing options a
NkeyOutcome(a) ==
    IF a.sig = "undef" THEN <<"error:SIG_REQ">>
    ELSE IF a.sig = "string" THEN <<"error:SIG_NOT_FUNC">>
    ELSE IF ~a.nkey /\ ~a.userjwt THEN <<"error:NKEY_OR_JWT_REQ">>
    ELSE <<>>

\* the step handles the first INFO of the socket, the INFO carries a nonce
\* and the TLS settings agree
NonceDue ==
    /\ FirstInfoDue /\ OnStreamData /\ Head(net).info.nonce
    /\ FiredOf(fired', TlsErrors) = <<>>

C30_SignerThrows ==
    [][(NonceDue /\ optAuth.sig = "throws")
          => /\ \E i \in 1..Len(fired') : fired'[i].t = "error:API_ERR"
             /\ \A i \in 1..Len(fired') : fired'[i].t # "throw"
             /\ CountOf(wire', "CONNECT") = 0]_vars

\* a command the rebuild of the pending queue is specified to keep
Kept(c) == c.k = "PUB" \/ (c.k = "PING" /\ c.cb.t # "undef")

\* the callbacks of the PINGs of q, in order
PingCbs(q) ==
    LET pings == SelectSeq(q, LAMBDA c : c.k = "PING")
    IN [i \in DOMAIN pings |-> pings[i].cb]

\* C31: the dial made by the reconnect timer leaves in pending exactly the
\* PUBs (text or Buffer) and the PINGs with a callback of the old queue, in
\* their order, and in the pong queue exactly the callbacks of those PINGs.
C31_PendingRebuild ==
    [][(ReconnectTimer /\ ~closed)
          => LET old == IF pendingOk THEN pending ELSE <<>>
             IN /\ pending' = SelectSeq(old, Kept)
                /\ pongs' = PingCbs(pending')
                /\ \A i \in 1..Len(pongs') : pongs'[i].t # "undef"]_vars

Urls(q) == [i \in DOMAIN q |-> q[i].url]

\* C32: a socket error on a client that never connected, on an endpoint that
\* never connected, removes the current endpoint from the list and no other
\* (waitOnFirstConnect off); with waitOnFirstConnect on, and once the client
\* has connected, a socket error removes nothing.
C32_ErrorRemovesCurrent ==
    [][OnStreamError
          => IF ~wasConnected /\ ~currentServer.didConnect /\ ~optWaitOnFirstConnect
             THEN Urls(servers') = SelectSeq(Urls(servers), LAMBDA u : u # currentServer.url)
             ELSE Urls(servers') = Urls(servers)]_vars

ConnErrs(f) == Len(FiredOf(f, {"error:CONN_ERR"}))

\* C33: while every dial fails with a socket error before its handshake
\* completes (waitOnFirstConnect off), no endpoint is dialed twice; the error
\* that empties the list emits CONN_ERR once, and no dial follows; CONN_ERR is
\* emitted by no step that leaves the list non-empty or finds the client
\* connected before.
C33_RefusedEverywhere ==
    /\ [](~optWaitOnFirstConnect
            => \A i, j \in 1..Len(dialLog.urls) :
                  dialLog.urls[i] = dialLog.urls[j] => i = j)
    /\ [][/\ ConnErrs(fired') > 0 => servers' = <<>> /\ ~wasConnected
          /\ (OnStreamError /\ servers # <<>> /\ servers' = <<>>) => ConnErrs(fired') = 1
          /\ servers = <<>> => dials' = dials /\ reconnTimers' = 0]_vars

Range(q) == {q[i] : i \in DOMAIN q}

\* C34: an INFO with connect_urls U on an established socket leaves the old
\* list without its implicit endpoints that are neither current nor in U,
\* in its order, followed by the urls of U that were not in it, each once and
\* implicit; 'serversDiscovered' and 'servers' are emitted, once each and
\* with the added urls, exactly when a url was added.
C34_ServerUpdate ==
    [][\A urls \in GossipUrls :
          GossipWith(urls)
             => LET U == Range(urls)
                    kept == SelectSeq(servers, LAMBDA sv :
                                ~(sv.implicit /\ sv.url # currentServer.url /\ sv.url \notin U))
                    added == U \ Range(Urls(servers))
                    rest == SubSeq(servers', Len(kept) + 1, Len(servers'))
                    bits == UrlBits(Urls(rest))
                IN /\ Len(servers') = Len(kept) + Cardinality(added)
                   /\ SubSeq(servers', 1, Len(kept)) = kept
                   /\ Range(Urls(rest)) = added
                   /\ \A i \in 1..Len(rest) : rest[i].implicit /\ ~rest[i].didConnect
                   /\ \A i, j \in 1..Len(servers') :
                         servers'[i].url = servers'[j].url => i = j
                   /\ \E i \in 1..Len(servers') : servers'[i].url = currentServer.url
                   /\ FiredOf(fired', {"serversDiscovered", "servers"})
                         = IF added = {} THEN <<>>
                           ELSE <<[t |-> "serversDiscovered", id |-> bits],
                                  [t |-> "servers", id |-> bits]>>]_vars

\* an update that reports 4 alone has added it and kept the endpoint 3, which
\* is implicit and current, and the explicit endpoint 1
C34_Witness ==
    /\ currentServer.url = 3 /\ currentServer.implicit
    /\ Len(servers) = 3 /\ servers[3].url = 4 /\ servers[3].implicit
    /\ \E i \in 1..2 : servers[i].url = 3
    /\ fired = <<[t |-> "serversDiscovered", id |-> 2 ^ 4], [t |-> "servers", id |-> 2 ^ 4]>>

\* C35: a dial makes the head of the list the current endpoint and moves it
\* to the tail, so that the current endpoint is the last element; while the
\* list does not change (waitOnFirstConnect, no announcements), any n
\* consecutive dials of a list of n endpoints go to each endpoint once.
C35_RoundRobin ==
    /\ [][dials' = dials + 1
             => /\ currentServer'.url = Head(servers).url
                /\ Urls(servers') = Append(Tail(Urls(servers)), Head(servers).url)
                /\ servers'[Len(servers')].url = currentServer'.url
                /\ dialLog'.urls = Append(dialLog.urls, currentServer'.url)]_vars
    /\ [][optWaitOnFirstConnect => Range(Urls(servers')) = Range(Urls(servers))]_vars
    /\ [](optWaitOnFirstConnect
            => LET n == Len(servers)
               IN \A k \in 1..(Len(dialLog.urls) - n + 1) :
                     Range(SubSeq(dialLog.urls, k, k + n - 1)) = Range(Urls(servers)))

\* three dials over a list of two endpoints that did not change
C35_Witness ==
    /\ optWaitOnFirstConnect /\ Len(servers) = 2 /\ dialLog.urls = <<1, 2, 1>>

\* C36: with options.servers and options.url, an url that is not in the list
\* is the first endpoint dialed; an url of the list is not added again; and
\* no url is twice in the server list.
C36_UrlOption ==
    LET u == dialLog.optUrl
        list == dialLog.optServers
    IN /\ \A i, j \in 1..Len(servers) : servers[i].url = servers[j].url => i = j
       /\ (u # Undefined /\ u.href \notin Range(list)) => dialLog.urls[1] = u.href
       /\ (u # Undefined /\ u.href \in Range(list)) => Len(servers) <= Len(list)

\* the sids of the 'unsubscribe' events among the events f
UnsubSids(f) == {f[i].id : i \in {x \in 1..Len(f) : f[x].t = "unsubscribe"}}

\* C37: a step that emits 'unsubscribe' with a sid leaves the registry without
\* that sid, emits it once, and has not emitted it for that sid before.
C37_UnsubscribeEvent ==
    [][\A sid \in UnsubSids(fired') :
          /\ subsOk' => sid \notin DOMAIN subs'
          /\ Len(FiredOf(fired', {"unsubscribe"})) = Cardinality(UnsubSids(fired'))
          /\ sid \in DOMAIN hist' => hist'[sid].unsubs = 1]_vars

\* the step removes the subscription sid because this message is its max-th
MaxedOut(sid) ==
    /\ sid \in DOMAIN subs /\ sid \notin DOMAIN subs'
    /\ subs[sid].max # 0 /\ subs[sid].received + 1 = subs[sid].max

\* an UNSUB of sid has been written on the current socket
ToldToStop(sid) == \E i \in 1..Len(wire') : wire'[i].k = "UNSUB" /\ wire'[i].id = sid

\* C38: in an established session, when the client removes a subscription
\* from its registry because it reached its max, an UNSUB for that sid has
\* been written on the socket of that session; also for a subscription
\* replayed by SUB after a reconnect.
C38_ServerToldToStop ==
    [][\A sid \in DOMAIN subs : (Established /\ MaxedOut(sid)) => ToldToStop(sid)]_vars

\* the CONNECTs written on the current socket
Connects == SelectSeq(wire, LAMBDA c : c.k = "CONNECT")

\* the values a field of CONNECT may have: absent, the option of the caller,
\* or a part of the authority of the url of the endpoint dialed
FromHere(field) ==
    {Undefined, cred.options[field]} \cup Range(UrlAuth(currentServer.url))

\* C39: user, pass and auth_token of a CONNECT come from the options of the
\* caller or from the authority of the url of the endpoint it is sent to,
\* never from the url of another endpoint, and no CONNECT has both user and
\* auth_token.
C39_CredentialsOfEndpoint ==
    \A i \in 1..Len(Connects) :
        /\ Connects[i].user \in FromHere("user")
        /\ Connects[i].pass \in FromHere("pass")
        /\ Connects[i].auth_token \in FromHere("token")
        /\ Connects[i].user = Undefined \/ Connects[i].auth_token = Undefined

\* C40: when a handler of the application calls close(), the code that
\* invoked the handler does not go on to use what close() has nulled: it
\* dereferences no null (no write to the stream, no access to the queues or
\* the registry), and the stream, the pending queue, the pong queue and the
\* registry stay as close() left them; a first INFO whose handler closed the
\* client is not followed by CONNECT nor by an entry in the pong queue.
C40_CloseInsideHandler ==
    [][(~closed /\ closed')
          => /\ ~threw' /\ ~stream'
             /\ ~pendingOk' /\ pending' = <<>>
             /\ ~pongsOk' /\ pongs' = <<>>
             /\ ~subsOk' /\ subs' = <<>>
             /\ ~infoReceived => CountOf(wire', "CONNECT") = 0]_vars

====
